---- MODULE Spec2Model ----
(***************************************************************************)
(* A model of the sensor manager (module/sensor_manager): the per-detector *)
(* threshold state, the two registration scopes (one table per detector,   *)
(* one global table per sensor type), the interrupt handler that samples   *)
(* a detector and notifies the registered modules, and the notification    *)
(* API (register_notification, unregister_notification, get_sensor_value). *)
(***************************************************************************)
EXTENDS Integers, Sequences, FiniteSets, TLC

(***************************************************************************)
(* Program constants.                                                      *)
(***************************************************************************)
SENSOR_TYPE_TEMPERATURE == 0
SENSOR_TYPE_VOLTAGE == 1
SENSOR_TYPE_FREQUENCY == 2
SENSOR_TYPE_COUNT == 3
DETECTORS_PER_SENSOR == 2

\* enum sensor_interrupt_type
SENSOR_INTERRUPT_THRESHOLD_EXCEEDED == 0
SENSOR_INTERRUPT_THRESHOLD_NORMAL == 1

\* The largest unsigned int, the wildcard detector id.  The model checker's
\* integers are 32-bit signed, so the model uses the largest value they hold;
\* the code only tests detector_id == UINT_MAX and detector_id >=
\* DETECTORS_PER_SENSOR, and stores it in a slot.
UINT_MAX == 2147483647

\* Status codes (fwk_status.h), by name.
FWK_SUCCESS == "FWK_SUCCESS"
FWK_E_PARAM == "FWK_E_PARAM"
FWK_E_STATE == "FWK_E_STATE"
FWK_E_NOMEM == "FWK_E_NOMEM"
FWK_E_ACCESS == "FWK_E_ACCESS"
FWK_E_DEVICE == "FWK_E_DEVICE"

\* Pointers and identifiers, by name.  NULL is the null callback / pointer;
\* ID_ZERO is the all-zero fwk_id_t that fwk_mm_calloc leaves in a slot that
\* was never filled; FWK_ID_NONE is what unregister_notification writes.
NULL == "NULL"
ID_ZERO == "ID_ZERO"
FWK_ID_NONE == "FWK_ID_NONE"

\* The MPLL clock driver: enum mod_mpll_clock_reg_width, the positions of
\* the register bits, the register offsets and device indices of
\* example_config.c, its status codes, and the timer it may be bound to.
MOD_MPLL_CLOCK_REG_WIDTH_8BIT == 0
MOD_MPLL_CLOCK_REG_WIDTH_32BIT == 1
MOD_MPLL_CLOCK_REG_WIDTH_COUNT == 2
MPLL_CTRL_ENABLE_POS == 0
MPLL_STATUS_LOCK_POS == 0
MPLL_FREQ_MULT_POS == 0
MPLL_FREQ_DIV_POS == 8
MPLL_FREQ_POSTDIV_POS == 16
MPLL_CTRL_REG_OFFSET == 0
MPLL_STATUS_REG_OFFSET == 4
MPLL_FREQ_REG_OFFSET == 8
MPLL_CLOCK_IDX_MAIN == 0
MPLL_CLOCK_IDX_SECONDARY == 1
MPLL_CLOCK_IDX_COUNT == 2
FWK_E_INIT == "FWK_E_INIT"
FWK_E_TIMEOUT == "FWK_E_TIMEOUT"
TIMER_ID == "FWK_ID_ELEMENT(FWK_MODULE_IDX_TIMER, 0)"
TIMER_API == "mod_timer_api"
\* The null pointer passed for a freq_config or a reg_params structure.
NULL_PARAMS == [pointer |-> NULL]

Types == 0 .. (SENSOR_TYPE_COUNT - 1)
Dets == 0 .. (DETECTORS_PER_SENSOR - 1)

(***************************************************************************)
(* Bounds of the model.                                                    *)
(***************************************************************************)
\* max_registrations_per_detector of the configuration (5 in the example
\* configuration): the capacity of every table.
MaxRegs == 2
\* How many of the most recent handler runs the history keeps.
MaxHist == 4
\* The largest threshold of the configurations the evaluator is run under;
\* the samples go one beyond it.
MaxThreshold == 3

(***************************************************************************)
(* Configuration (example_config.c).                                       *)
(***************************************************************************)
DetectorConfig(reg_base, irq, enabled, low, high, threshold_enabled) ==
    [reg_base |-> reg_base, irq |-> irq, enabled |-> enabled,
     threshold_low |-> low, threshold_high |-> high,
     threshold_enabled |-> threshold_enabled]

\* sensor_manager_config, with the capacity a bound of the model.  Register
\* bases are numbered 0..5 in the order of the TEMP_DETECTOR_0_BASE ...
\* FREQ_DETECTOR_1_BASE addresses.
sensor_manager_config ==
    [temp_detectors |->
        (0 :> DetectorConfig(0, 32, TRUE, 10, 85, TRUE) @@
         1 :> DetectorConfig(1, 33, TRUE, 15, 90, TRUE)),
     voltage_detectors |->
        (0 :> DetectorConfig(2, 34, TRUE, 3000, 3600, TRUE) @@
         1 :> DetectorConfig(3, 35, TRUE, 1100, 1300, TRUE)),
     freq_detectors |->
        (0 :> DetectorConfig(4, 36, TRUE, 100, 2400, TRUE) @@
         1 :> DetectorConfig(5, 37, FALSE, 0, 0, FALSE)),
     max_registrations_per_detector |-> MaxRegs]

\* A configuration in which a disabled detector shares its interrupt line
\* with an enabled one that follows it in the scan order, and an enabled
\* detector has threshold monitoring switched off.
shared_line_config ==
    [temp_detectors |->
        (0 :> DetectorConfig(0, 32, FALSE, 10, 85, TRUE) @@
         1 :> DetectorConfig(1, 32, TRUE, 15, 90, TRUE)),
     voltage_detectors |->
        (0 :> DetectorConfig(2, 34, TRUE, 3000, 3600, FALSE) @@
         1 :> DetectorConfig(3, 35, TRUE, 1100, 1300, TRUE)),
     freq_detectors |->
        (0 :> DetectorConfig(4, 36, TRUE, 100, 2400, TRUE) @@
         1 :> DetectorConfig(5, 37, FALSE, 0, 0, FALSE)),
     max_registrations_per_detector |-> MaxRegs]

VARIABLES
    config,   \* sensor_manager_ctx.config: the configuration, never mutated
    sensors,  \* sensor_manager_ctx.sensors: one sensor_context per type
    out,      \* the caller's variable that get_sensor_value writes through
    last,     \* the most recent operation: its arguments and what it returned
    calls,    \* the callback invocations made by the most recent step
    hist,     \* the most recent handler runs, oldest first
    sampled,  \* the detectors the handler has sampled at least once
    granted,  \* <<type, detector_id, requester>> of the registrations whose
              \* register returned success and that no successful
              \* unregister has ended since
    fg        \* the foreground register or unregister call in progress:
              \* its arguments and how far it has come

\* The MPLL clock driver (module/mpll_clock).
VARIABLES
    mpll_elements,  \* the element table: one mod_mpll_clock_config per device
    dev_ctx_table,  \* module_ctx.dev_ctx_table: one mpll_clock_dev_ctx each
    mpll_regs,      \* the register block of each device, as the set of the
                    \* bits that are 1 (bit b of the byte at offset o is
                    \* 8 * o + b)
    mpll_last       \* the most recent call of the driver and its result

mpll_vars == <<mpll_elements, dev_ctx_table, mpll_regs, mpll_last>>

vars == <<config, sensors, out, last, calls, hist, sampled, granted, fg,
          mpll_vars>>

(***************************************************************************)
(* Start-up: sensor_manager_init and sensor_manager_start.                 *)
(***************************************************************************)
\* The switch of sensor_manager_init that picks a type's detector configs.
detector_configs(cfg, type) ==
    CASE type = SENSOR_TYPE_TEMPERATURE -> cfg.temp_detectors
      [] type = SENSOR_TYPE_VOLTAGE -> cfg.voltage_detectors
      [] type = SENSOR_TYPE_FREQUENCY -> cfg.freq_detectors

\* detector_ctx->config of detector (type, detector_id).
ConfigOf(cfg, type, detector_id) == detector_configs(cfg, type)[detector_id]

\* One zeroed struct sensor_registration, as fwk_mm_calloc returns it.
calloc_registration ==
    [callback |-> NULL, requester_id |-> ID_ZERO, detector_id |-> 0,
     active |-> FALSE]

\* fwk_mm_calloc(n, sizeof(struct sensor_registration))
fwk_mm_calloc(n) == [i \in 0 .. (n - 1) |-> calloc_registration]

\* A start-up that leaves the flag as fwk_mm_calloc-style zeroing would.
sensor_manager_init_FlagZeroed(cfg) ==
    [type \in Types |->
        [detectors |->
            [detector_id \in Dets |->
                [registrations |->
                    fwk_mm_calloc(cfg.max_registrations_per_detector),
                 active_count |-> 0,
                 max_registrations |-> cfg.max_registrations_per_detector,
                 current_value |-> 0,
                 previous_value |-> 0,
                 enabled |-> ConfigOf(cfg, type, detector_id).enabled,
                 is_in_normal_range |-> FALSE]],
         global_registrations |->
            fwk_mm_calloc(cfg.max_registrations_per_detector),
         global_active_count |-> 0,
         max_global_registrations |-> cfg.max_registrations_per_detector]]

sensor_manager_init(cfg) ==
    [type \in Types |->
        [detectors |->
            [detector_id \in Dets |->
                [registrations |->
                    fwk_mm_calloc(cfg.max_registrations_per_detector),
                 active_count |-> 0,
                 max_registrations |-> cfg.max_registrations_per_detector,
                 current_value |-> 0,
                 previous_value |-> 0,
                 enabled |-> ConfigOf(cfg, type, detector_id).enabled,
                 is_in_normal_range |-> TRUE]],
         global_registrations |->
            fwk_mm_calloc(cfg.max_registrations_per_detector),
         global_active_count |-> 0,
         max_global_registrations |-> cfg.max_registrations_per_detector]]

\* The interrupt lines sensor_manager_start binds the handler to and enables:
\* the lines of the enabled detectors.
sensor_manager_start(s, cfg) ==
    {ConfigOf(cfg, td[1], td[2]).irq :
        td \in {x \in Types \X Dets : s[x[1]].detectors[x[2]].enabled}}

(***************************************************************************)
(* Threshold evaluator.                                                    *)
(***************************************************************************)
\* An evaluator whose upper bound is exclusive.
is_value_in_normal_range_Exclusive(value, dcfg) ==
    IF ~dcfg.threshold_enabled
    THEN TRUE
    ELSE value >= dcfg.threshold_low /\ value < dcfg.threshold_high

is_value_in_normal_range(value, dcfg) ==
    IF ~dcfg.threshold_enabled
    THEN TRUE
    ELSE value >= dcfg.threshold_low /\ value <= dcfg.threshold_high

\* A classifier that reports Normal whenever the sample is no transition.
determine_interrupt_type_TransitionOnly(current_value, was_in_normal_range, dcfg) ==
    LET is_now_in_normal_range == is_value_in_normal_range(current_value, dcfg)
    IN  IF ~dcfg.threshold_enabled
        THEN SENSOR_INTERRUPT_THRESHOLD_NORMAL
        ELSE IF was_in_normal_range /\ ~is_now_in_normal_range
        THEN SENSOR_INTERRUPT_THRESHOLD_EXCEEDED
        ELSE SENSOR_INTERRUPT_THRESHOLD_NORMAL

determine_interrupt_type(current_value, was_in_normal_range, dcfg) ==
    LET is_now_in_normal_range == is_value_in_normal_range(current_value, dcfg)
    IN  IF ~dcfg.threshold_enabled
        THEN SENSOR_INTERRUPT_THRESHOLD_NORMAL
        ELSE IF was_in_normal_range /\ ~is_now_in_normal_range
        THEN SENSOR_INTERRUPT_THRESHOLD_EXCEEDED
        ELSE IF ~was_in_normal_range /\ is_now_in_normal_range
        THEN SENSOR_INTERRUPT_THRESHOLD_NORMAL
        ELSE IF is_now_in_normal_range
             THEN SENSOR_INTERRUPT_THRESHOLD_NORMAL
             ELSE SENSOR_INTERRUPT_THRESHOLD_EXCEEDED

\* The return statement of determine_interrupt_type that the inputs reach:
\* the one for a detector without monitoring, the two transition branches,
\* or the last else.
determine_interrupt_type_branch(current_value, was_in_normal_range, dcfg) ==
    LET is_now_in_normal_range == is_value_in_normal_range(current_value, dcfg)
    IN  IF ~dcfg.threshold_enabled
        THEN "disabled"
        ELSE IF was_in_normal_range /\ ~is_now_in_normal_range
        THEN "normal_to_exceeded"
        ELSE IF ~was_in_normal_range /\ is_now_in_normal_range
        THEN "exceeded_to_normal"
        ELSE "no_change"

(***************************************************************************)
(* Interrupt bridge.                                                       *)
(***************************************************************************)
\* The detectors whose configured line is irq.
IrqMatches(cfg, irq) ==
    {td \in Types \X Dets : ConfigOf(cfg, td[1], td[2]).irq = irq}

\* A scan that reports success with its outputs at zero when no line
\* matches.
get_sensor_and_detector_from_irq_DefaultFirst(cfg, irq) ==
    LET m == IrqMatches(cfg, irq)
    IN  IF m = {}
        THEN [found |-> TRUE, type |-> 0, detector_id |-> 0]
        ELSE LET first == CHOOSE x \in m : \A y \in m :
                              x[1] < y[1] \/ (x[1] = y[1] /\ x[2] <= y[2])
             IN  [found |-> TRUE, type |-> first[1], detector_id |-> first[2]]

\* A scan that keeps the last match instead of returning on the first.
get_sensor_and_detector_from_irq_LastMatch(cfg, irq) ==
    LET m == IrqMatches(cfg, irq)
    IN  IF m = {}
        THEN [found |-> FALSE, type |-> -1, detector_id |-> -1]
        ELSE LET final == CHOOSE x \in m : \A y \in m :
                              y[1] < x[1] \/ (y[1] = x[1] /\ y[2] <= x[2])
             IN  [found |-> TRUE, type |-> final[1], detector_id |-> final[2]]

\* The scan of all sensor types, and of the detectors within each, in
\* ascending order: the first detector whose configured line is irq.
get_sensor_and_detector_from_irq(cfg, irq) ==
    LET m == IrqMatches(cfg, irq)
    IN  IF m = {}
        THEN [found |-> FALSE, type |-> -1, detector_id |-> -1]
        ELSE LET first == CHOOSE x \in m : \A y \in m :
                              x[1] < y[1] \/ (x[1] = y[1] /\ x[2] <= y[2])
             IN  [found |-> TRUE, type |-> first[1], detector_id |-> first[2]]

\* An invocation that passes the detector id stored in the registration.
Callback_StoredDetector(reg, type, detector_id, interrupt_type, value, scope, slot) ==
    [callback |-> reg.callback, type |-> type,
     detector_id |-> reg.detector_id,
     interrupt_type |-> interrupt_type, value |-> value,
     source_id |-> reg.requester_id, scope |-> scope, slot |-> slot]

\* One invocation reg->callback(type, detector_id, interrupt_type, value,
\* reg->requester_id).  scope and slot are not passed to the callback: they
\* record which table and which slot the invoked registration is held in.
Callback(reg, type, detector_id, interrupt_type, value, scope, slot) ==
    [callback |-> reg.callback, type |-> type, detector_id |-> detector_id,
     interrupt_type |-> interrupt_type, value |-> value,
     source_id |-> reg.requester_id, scope |-> scope, slot |-> slot]

\* A loop that passes every callback the identity held in slot 0.
NotifyTable_FirstIdentity(regs, max, type, detector_id, interrupt_type, value, scope) ==
    LET F[i \in 0 .. max] ==
            IF i = 0
            THEN << >>
            ELSE LET reg == regs[i - 1]
                 IN  IF reg.active /\ reg.callback # NULL
                     THEN Append(F[i - 1],
                                 Callback([reg EXCEPT !.requester_id =
                                               regs[0].requester_id],
                                          type, detector_id,
                                          interrupt_type, value, scope, i - 1))
                     ELSE F[i - 1]
    IN  F[max]

\* One loop of notify_registered_modules over a table of max slots, in
\* ascending slot order.
NotifyTable(regs, max, type, detector_id, interrupt_type, value, scope) ==
    LET F[i \in 0 .. max] ==
            IF i = 0
            THEN << >>
            ELSE LET reg == regs[i - 1]
                 IN  IF reg.active /\ reg.callback # NULL
                     THEN Append(F[i - 1],
                                 Callback(reg, type, detector_id,
                                          interrupt_type, value, scope, i - 1))
                     ELSE F[i - 1]
    IN  F[max]

\* A dispatch that runs the loop over the global table first.
notify_registered_modules_GlobalFirst(s, type, detector_id, interrupt_type, value) ==
    NotifyTable(s[type].global_registrations,
                s[type].max_global_registrations,
                type, detector_id, interrupt_type, value,
                <<type, UINT_MAX>>)
    \o
    NotifyTable(s[type].detectors[detector_id].registrations,
                s[type].detectors[detector_id].max_registrations,
                type, detector_id, interrupt_type, value,
                <<type, detector_id>>)

\* A dispatch whose second loop runs over the detector's table again.
notify_registered_modules_DetectorTwice(s, type, detector_id, interrupt_type, value) ==
    NotifyTable(s[type].detectors[detector_id].registrations,
                s[type].detectors[detector_id].max_registrations,
                type, detector_id, interrupt_type, value,
                <<type, detector_id>>)
    \o
    NotifyTable(s[type].detectors[detector_id].registrations,
                s[type].max_global_registrations,
                type, detector_id, interrupt_type, value,
                <<type, UINT_MAX>>)

\* A dispatch that forgets the wildcard registrations.
notify_registered_modules_DetectorOnly(s, type, detector_id, interrupt_type, value) ==
    NotifyTable(s[type].detectors[detector_id].registrations,
                s[type].detectors[detector_id].max_registrations,
                type, detector_id, interrupt_type, value,
                <<type, detector_id>>)

\* The table a detector-scope registration lives in is named <<type, d>>,
\* the global table of a type <<type, UINT_MAX>>.
notify_registered_modules(s, type, detector_id, interrupt_type, value) ==
    LET sensor_ctx == s[type]
        detector_ctx == sensor_ctx.detectors[detector_id]
    IN  NotifyTable(detector_ctx.registrations, detector_ctx.max_registrations,
                    type, detector_id, interrupt_type, value,
                    <<type, detector_id>>)
        \o
        NotifyTable(sensor_ctx.global_registrations,
                    sensor_ctx.max_global_registrations,
                    type, detector_id, interrupt_type, value,
                    <<type, UINT_MAX>>)

\* A gate that asks for a change of the flag whatever the configuration.
ShouldNotify_EdgeOnly(dcfg, was_in_normal_range, is_in_normal_range) ==
    was_in_normal_range # is_in_normal_range

\* A level-triggered gate: every out-of-range sample notifies.
ShouldNotify_Level(dcfg, was_in_normal_range, is_in_normal_range) ==
    ~dcfg.threshold_enabled \/ ~is_in_normal_range

\* No gate: every sample notifies.
ShouldNotify_Always(dcfg, was_in_normal_range, is_in_normal_range) == TRUE

\* The gate of the handler before notify_registered_modules.
ShouldNotify(dcfg, was_in_normal_range, is_in_normal_range) ==
    ~dcfg.threshold_enabled \/ (was_in_normal_range # is_in_normal_range)

\* A sample step that stores the value and leaves the flag as it was.
SampleDetector_StaleFlag(detector_ctx, dcfg, value) ==
    [detector_ctx EXCEPT
        !.previous_value = detector_ctx.current_value,
        !.current_value = value]

\* The detector context after the handler's sample step.
SampleDetector(detector_ctx, dcfg, value) ==
    [detector_ctx EXCEPT
        !.previous_value = detector_ctx.current_value,
        !.current_value = value,
        !.is_in_normal_range = is_value_in_normal_range(value, dcfg)]

\* The record of an operation: its arguments, what it returned and the
\* index of the slot it wrote.  callback also holds the pointer argument of
\* get_sensor_value.  Fields an operation does not have hold -1, "-" or
\* FALSE.  steps and call_steps are kept by the handler runs whose callbacks
\* may call the API: the iterations of the handler's own loops, and the
\* largest number of loop iterations and stores of one call made by a
\* callback.
Op(op, type, detector_id, callback, requester_id, ret, slot) ==
    [op |-> op, type |-> type, detector_id |-> detector_id,
     callback |-> callback, requester_id |-> requester_id, ret |-> ret,
     slot |-> slot, irq |-> -1, value |-> -1, found |-> FALSE,
     notified |-> FALSE, interrupt_type |-> -1, steps |-> -1,
     call_steps |-> -1]

Irq(irq, type, detector_id, value, found, notified, interrupt_type) ==
    [op |-> "irq", type |-> type, detector_id |-> detector_id,
     callback |-> "-", requester_id |-> "-", ret |-> "-", slot |-> -1,
     irq |-> irq, value |-> value, found |-> found, notified |-> notified,
     interrupt_type |-> interrupt_type, steps |-> -1, call_steps |-> -1]

\* The history with one more handler run, cut to the last window runs.
Push(h, run, window) ==
    LET all == Append(h, run)
    IN  IF Len(all) > window THEN SubSeq(all, Len(all) - window + 1, Len(all))
        ELSE all

\* One run of the handler for line irq (fwk_interrupt_get_current), when the
\* read of the detector's register returns value.  (\E x \in {e} names the
\* value of e.)
sensor_interrupt_handler(irq, value, window) ==
    \E r \in {get_sensor_and_detector_from_irq(config, irq)} :
        IF ~r.found
        THEN /\ last' = Irq(irq, -1, -1, -1, FALSE, FALSE, -1)
             /\ calls' = << >>
             /\ hist' = Push(hist, [type |-> -1, detector_id |-> -1,
                                    value |-> -1, notified |-> FALSE,
                                    interrupt_type |-> -1], window)
             /\ UNCHANGED <<config, sensors, out, sampled, granted, fg,
                            mpll_vars>>
        ELSE \E dcfg \in {ConfigOf(config, r.type, r.detector_id)},
                detector_ctx \in {sensors[r.type].detectors[r.detector_id]} :
             \E was_in_normal_range \in {detector_ctx.is_in_normal_range},
                after \in {SampleDetector(detector_ctx, dcfg, value)} :
             \E interrupt_type \in
                    {determine_interrupt_type(value, was_in_normal_range,
                                              dcfg)},
                notify \in {ShouldNotify(dcfg, was_in_normal_range,
                                         after.is_in_normal_range)} :
                 /\ sensors' =
                        [sensors EXCEPT
                            ![r.type].detectors[r.detector_id] = after]
                 /\ calls' = IF notify
                             THEN notify_registered_modules(
                                      sensors', r.type, r.detector_id,
                                      interrupt_type, value)
                             ELSE << >>
                 /\ last' = Irq(irq, r.type, r.detector_id, value, TRUE,
                                notify,
                                IF notify THEN interrupt_type ELSE -1)
                 /\ hist' = Push(hist, [type |-> r.type,
                                        detector_id |-> r.detector_id,
                                        value |-> value, notified |-> notify,
                                        interrupt_type |->
                                            IF notify THEN interrupt_type
                                            ELSE -1], window)
                 /\ sampled' = sampled \cup {<<r.type, r.detector_id>>}
                 /\ UNCHANGED <<config, out, granted, fg, mpll_vars>>

(***************************************************************************)
(* Registration tables.  register_notification and unregister_notification *)
(* run the same code on the global table of a type (detector_id UINT_MAX)  *)
(* and on the table of one detector.                                       *)
(***************************************************************************)
fwk_id_is_equal(a, b) == a = b

\* No duplicate check at all.
AlreadyRegistered_Never(regs, max, requester_id) == FALSE

\* A duplicate check that looks at the first slot only.
AlreadyRegistered_FirstSlotOnly(regs, max, requester_id) ==
    regs[0].active /\ regs[0].requester_id = requester_id

\* The "check if already registered" loop: some active slot is requester's.
AlreadyRegistered(regs, max, requester_id) ==
    \E i \in 0 .. (max - 1) :
        regs[i].active /\ fwk_id_is_equal(regs[i].requester_id, requester_id)

\* A search that takes slot 0 without looking at its active flag.
FindEmptySlot_AlwaysFirst(regs, max) == 0

\* A search that falls back on slot 0 when every slot is active.
FindEmptySlot_Overwrite(regs, max) ==
    IF \E i \in 0 .. (max - 1) : ~regs[i].active
    THEN CHOOSE i \in 0 .. (max - 1) :
             ~regs[i].active /\ \A j \in 0 .. (i - 1) : regs[j].active
    ELSE 0

\* A search that takes the last inactive slot.
FindEmptySlot_LastFit(regs, max) ==
    IF \E i \in 0 .. (max - 1) : ~regs[i].active
    THEN CHOOSE i \in 0 .. (max - 1) :
             ~regs[i].active /\ \A j \in (i + 1) .. (max - 1) : regs[j].active
    ELSE max

\* The "find empty slot" loop: the first inactive slot in ascending order,
\* max when every slot is active.
FindEmptySlot(regs, max) ==
    IF \E i \in 0 .. (max - 1) : ~regs[i].active
    THEN CHOOSE i \in 0 .. (max - 1) :
             ~regs[i].active /\ \A j \in 0 .. (i - 1) : regs[j].active
    ELSE max

\* The slot register_notification writes.
FillSlot(callback, requester_id, detector_id) ==
    [callback |-> callback, requester_id |-> requester_id,
     detector_id |-> detector_id, active |-> TRUE]

\* The unregister loop: the first active slot of requester, max if none.
FindRegistration(regs, max, requester_id) ==
    IF AlreadyRegistered(regs, max, requester_id)
    THEN CHOOSE i \in 0 .. (max - 1) :
             /\ regs[i].active
             /\ fwk_id_is_equal(regs[i].requester_id, requester_id)
             /\ \A j \in 0 .. (i - 1) :
                    ~(regs[j].active /\
                      fwk_id_is_equal(regs[j].requester_id, requester_id))
    ELSE max

\* The slot unregister_notification leaves behind.
ClearSlot ==
    [callback |-> NULL, requester_id |-> FWK_ID_NONE, detector_id |-> 0,
     active |-> FALSE]

\* Parameter checks of register_notification that accept a null callback.
RegisterParamsValid_NullAccepted(type, detector_id, callback) ==
    LET is_wildcard == (detector_id = UINT_MAX)
    IN  /\ ~(type >= SENSOR_TYPE_COUNT)
        /\ ~(~is_wildcard /\ detector_id >= DETECTORS_PER_SENSOR)

\* The parameter checks of register_notification.
RegisterParamsValid(type, detector_id, callback) ==
    LET is_wildcard == (detector_id = UINT_MAX)
    IN  /\ ~(type >= SENSOR_TYPE_COUNT \/ callback = NULL)
        /\ ~(~is_wildcard /\ detector_id >= DETECTORS_PER_SENSOR)

\* The parameter checks of unregister_notification.
UnregisterParamsValid(type, detector_id) ==
    LET is_wildcard == (detector_id = UINT_MAX)
    IN  /\ ~(type >= SENSOR_TYPE_COUNT)
        /\ ~(~is_wildcard /\ detector_id >= DETECTORS_PER_SENSOR)

\* The table (type, detector_id) addresses, as a record of its slots, its
\* active count and its capacity.
TableOf(s, type, detector_id) ==
    IF detector_id = UINT_MAX
    THEN [regs |-> s[type].global_registrations,
          count |-> s[type].global_active_count,
          max |-> s[type].max_global_registrations]
    ELSE [regs |-> s[type].detectors[detector_id].registrations,
          count |-> s[type].detectors[detector_id].active_count,
          max |-> s[type].detectors[detector_id].max_registrations]

\* The sensor contexts with the slots and the active count of the addressed
\* table replaced.
WithTable(s, type, detector_id, regs, count) ==
    IF detector_id = UINT_MAX
    THEN [s EXCEPT ![type].global_registrations = regs,
                   ![type].global_active_count = count]
    ELSE [s EXCEPT ![type].detectors[detector_id].registrations = regs,
                   ![type].detectors[detector_id].active_count = count]

\* A register_notification whose duplicate check spans both scopes of the
\* type: one registration per requester and type.
RegisterResult_OnePerType(s, type, detector_id, callback, requester_id) ==
    IF ~RegisterParamsValid(type, detector_id, callback)
    THEN [ret |-> FWK_E_PARAM, slot |-> -1, sensors |-> s]
    ELSE LET t == TableOf(s, type, detector_id)
             i == FindEmptySlot(t.regs, t.max)
         IN  IF \E d \in Dets \cup {UINT_MAX} :
                    AlreadyRegistered(TableOf(s, type, d).regs, t.max,
                                      requester_id)
             THEN [ret |-> FWK_E_STATE, slot |-> -1, sensors |-> s]
             ELSE IF i < t.max
             THEN [ret |-> FWK_SUCCESS, slot |-> i,
                   sensors |->
                       WithTable(s, type, detector_id,
                           [t.regs EXCEPT ![i] =
                               FillSlot(callback, requester_id, detector_id)],
                           t.count + 1)]
             ELSE [ret |-> FWK_E_NOMEM, slot |-> -1, sensors |-> s]

\* A register_notification whose search for an empty slot runs one slot
\* past the end of the table.
RegisterResult_PastEnd(s, type, detector_id, callback, requester_id) ==
    IF ~RegisterParamsValid(type, detector_id, callback)
    THEN [ret |-> FWK_E_PARAM, slot |-> -1, sensors |-> s]
    ELSE LET t == TableOf(s, type, detector_id)
             i == FindEmptySlot(t.regs, t.max)
         IN  IF AlreadyRegistered(t.regs, t.max, requester_id)
             THEN [ret |-> FWK_E_STATE, slot |-> -1, sensors |-> s]
             ELSE [ret |-> FWK_SUCCESS, slot |-> i,
                   sensors |->
                       WithTable(s, type, detector_id,
                           [t.regs EXCEPT ![i] =
                               FillSlot(callback, requester_id, detector_id)],
                           t.count + 1)]

\* register_notification: what it returns and the sensor contexts after it.
RegisterResult(s, type, detector_id, callback, requester_id) ==
    IF ~RegisterParamsValid(type, detector_id, callback)
    THEN [ret |-> FWK_E_PARAM, slot |-> -1, sensors |-> s]
    ELSE LET t == TableOf(s, type, detector_id)
             i == FindEmptySlot(t.regs, t.max)
         IN  IF AlreadyRegistered(t.regs, t.max, requester_id)
             THEN [ret |-> FWK_E_STATE, slot |-> -1, sensors |-> s]
             ELSE IF i < t.max
             THEN [ret |-> FWK_SUCCESS, slot |-> i,
                   sensors |->
                       WithTable(s, type, detector_id,
                           [t.regs EXCEPT ![i] =
                               FillSlot(callback, requester_id, detector_id)],
                           t.count + 1)]
             ELSE [ret |-> FWK_E_NOMEM, slot |-> -1, sensors |-> s]

\* An unregister_notification that falls back on the global table when the
\* requester is not in the addressed one.
UnregisterResult_Fallthrough(s, type, detector_id, requester_id) ==
    IF ~UnregisterParamsValid(type, detector_id)
    THEN [ret |-> FWK_E_PARAM, slot |-> -1, sensors |-> s]
    ELSE LET t == TableOf(s, type, detector_id)
             i == FindRegistration(t.regs, t.max, requester_id)
             g == TableOf(s, type, UINT_MAX)
             j == FindRegistration(g.regs, g.max, requester_id)
         IN  IF i < t.max
             THEN [ret |-> FWK_SUCCESS, slot |-> i,
                   sensors |->
                       WithTable(s, type, detector_id,
                           [t.regs EXCEPT ![i] = ClearSlot], t.count - 1)]
             ELSE IF j < g.max
             THEN [ret |-> FWK_SUCCESS, slot |-> j,
                   sensors |->
                       WithTable(s, type, UINT_MAX,
                           [g.regs EXCEPT ![j] = ClearSlot], g.count - 1)]
             ELSE [ret |-> FWK_E_ACCESS, slot |-> -1, sensors |-> s]

\* The slots of a table with slot i removed and the later ones moved down.
Compact(regs, max, i) ==
    [j \in 0 .. (max - 1) |->
        IF j < i THEN regs[j]
        ELSE IF j < max - 1 THEN regs[j + 1]
        ELSE ClearSlot]

\* An unregister_notification that compacts the table.
UnregisterResult_Compact(s, type, detector_id, requester_id) ==
    IF ~UnregisterParamsValid(type, detector_id)
    THEN [ret |-> FWK_E_PARAM, slot |-> -1, sensors |-> s]
    ELSE LET t == TableOf(s, type, detector_id)
             i == FindRegistration(t.regs, t.max, requester_id)
         IN  IF i < t.max
             THEN [ret |-> FWK_SUCCESS, slot |-> i,
                   sensors |->
                       WithTable(s, type, detector_id,
                           Compact(t.regs, t.max, i), t.count - 1)]
             ELSE [ret |-> FWK_E_ACCESS, slot |-> -1, sensors |-> s]

\* An unregister_notification that clears the slot and leaves the count.
UnregisterResult_KeepCount(s, type, detector_id, requester_id) ==
    IF ~UnregisterParamsValid(type, detector_id)
    THEN [ret |-> FWK_E_PARAM, slot |-> -1, sensors |-> s]
    ELSE LET t == TableOf(s, type, detector_id)
             i == FindRegistration(t.regs, t.max, requester_id)
         IN  IF i < t.max
             THEN [ret |-> FWK_SUCCESS, slot |-> i,
                   sensors |->
                       WithTable(s, type, detector_id,
                           [t.regs EXCEPT ![i] = ClearSlot], t.count)]
             ELSE [ret |-> FWK_E_ACCESS, slot |-> -1, sensors |-> s]

\* unregister_notification: what it returns and the sensor contexts after it.
UnregisterResult(s, type, detector_id, requester_id) ==
    IF ~UnregisterParamsValid(type, detector_id)
    THEN [ret |-> FWK_E_PARAM, slot |-> -1, sensors |-> s]
    ELSE LET t == TableOf(s, type, detector_id)
             i == FindRegistration(t.regs, t.max, requester_id)
         IN  IF i < t.max
             THEN [ret |-> FWK_SUCCESS, slot |-> i,
                   sensors |->
                       WithTable(s, type, detector_id,
                           [t.regs EXCEPT ![i] = ClearSlot], t.count - 1)]
             ELSE [ret |-> FWK_E_ACCESS, slot |-> -1, sensors |-> s]

\* A get_sensor_value that reads the cached value of any detector.
GetValueResult_NoEnabledCheck(s, type, detector_id, value, o) ==
    IF type >= SENSOR_TYPE_COUNT \/ detector_id >= DETECTORS_PER_SENSOR
       \/ value = NULL
    THEN [ret |-> FWK_E_PARAM, out |-> o]
    ELSE [ret |-> FWK_SUCCESS,
          out |-> s[type].detectors[detector_id].current_value]

\* A get_sensor_value that returns the value before the latest sample.
GetValueResult_Previous(s, type, detector_id, value, o) ==
    IF type >= SENSOR_TYPE_COUNT \/ detector_id >= DETECTORS_PER_SENSOR
       \/ value = NULL
    THEN [ret |-> FWK_E_PARAM, out |-> o]
    ELSE LET detector_ctx == s[type].detectors[detector_id]
         IN  IF ~detector_ctx.enabled
             THEN [ret |-> FWK_E_DEVICE, out |-> o]
             ELSE [ret |-> FWK_SUCCESS, out |-> detector_ctx.previous_value]

\* get_sensor_value: what it returns and the caller's variable after it;
\* value is the pointer argument, NULL or the address of that variable.
GetValueResult(s, type, detector_id, value, o) ==
    IF type >= SENSOR_TYPE_COUNT \/ detector_id >= DETECTORS_PER_SENSOR
       \/ value = NULL
    THEN [ret |-> FWK_E_PARAM, out |-> o]
    ELSE LET detector_ctx == s[type].detectors[detector_id]
         IN  IF ~detector_ctx.enabled
             THEN [ret |-> FWK_E_DEVICE, out |-> o]
             ELSE [ret |-> FWK_SUCCESS, out |-> detector_ctx.current_value]

(***************************************************************************)
(* The operations, as actions.                                             *)
(***************************************************************************)
\* The registrations in force after a call that returned ret.
GrantedAfter(g, op, type, detector_id, requester_id, ret) ==
    IF ret # FWK_SUCCESS
    THEN g
    ELSE IF op = "register"
    THEN g \cup {<<type, detector_id, requester_id>>}
    ELSE g \ {<<type, detector_id, requester_id>>}

register_notification(type, detector_id, callback, requester_id) ==
    \E r \in {RegisterResult(sensors, type, detector_id, callback,
                              requester_id)} :
        /\ sensors' = r.sensors
        /\ last' = Op("register", type, detector_id, callback, requester_id,
                      r.ret, r.slot)
        /\ calls' = << >>
        /\ granted' = GrantedAfter(granted, "register", type, detector_id,
                                   requester_id, r.ret)
        /\ UNCHANGED <<config, out, hist, sampled, fg, mpll_vars>>

unregister_notification(type, detector_id, requester_id) ==
    \E r \in {UnregisterResult(sensors, type, detector_id, requester_id)} :
        /\ sensors' = r.sensors
        /\ last' = Op("unregister", type, detector_id, "-", requester_id,
                      r.ret, r.slot)
        /\ calls' = << >>
        /\ granted' = GrantedAfter(granted, "unregister", type, detector_id,
                                   requester_id, r.ret)
        /\ UNCHANGED <<config, out, hist, sampled, fg, mpll_vars>>

get_sensor_value(type, detector_id, value) ==
    \E r \in {GetValueResult(sensors, type, detector_id, value, out)} :
        /\ out' = r.out
        /\ last' = Op("get", type, detector_id, value, "-", r.ret, -1)
        /\ calls' = << >>
        /\ UNCHANGED <<config, sensors, hist, sampled, granted, fg, mpll_vars>>

(***************************************************************************)
(* The MPLL clock driver (module/mpll_clock).  A uint32_t is the set of    *)
(* the positions 0 .. 31 of its bits that are 1, so that &, | and ~ are    *)
(* intersection, union and complement, and the cast to uint8_t keeps the   *)
(* positions 0 .. 7.                                                       *)
(***************************************************************************)
Uint32Bits == 0 .. 31
Uint8Bits == 0 .. 7

\* The bits of the number n, 0 <= n < 2^31.
ToBits(n) == {i \in 0 .. 30 : (n \div (2 ^ i)) % 2 = 1}

\* bits << pos, in 32 bits.
ShiftLeft(bits, pos) == {i + pos : i \in bits} \cap Uint32Bits

\* bits >> pos.
ShiftRight(bits, pos) == {i - pos : i \in {j \in bits : j >= pos}}

\* The number whose bits are bits, for a field of at most eight bits.
FromBits(bits) == CHOOSE n \in 0 .. 255 : ToBits(n) = bits

\* A uint64_t, as three digits in base 10000, the highest first: the
\* frequencies of the driver exceed the integers of the checker but not
\* 10^12.  U64 converts n, U64Mul multiplies by m < 2^16 and U64Div divides
\* by q, 0 < q < 2^16, rounding down as C does.
U64(n) == <<n \div 100000000, (n \div 10000) % 10000, n % 10000>>

U64Mul(x, m) ==
    LET t0 == x[3] * m
        t1 == x[2] * m + t0 \div 10000
        t2 == x[1] * m + t1 \div 10000
    IN  <<t2, t1 % 10000, t0 % 10000>>

U64Div(x, q) ==
    LET c1 == (x[1] % q) * 10000 + x[2]
        c0 == (c1 % q) * 10000 + x[3]
    IN  <<x[1] \div q, c1 \div q, c0 \div q>>

\* Register bit definitions.
MPLL_CTRL_ENABLE_MASK == ShiftLeft(ToBits(1), MPLL_CTRL_ENABLE_POS)
MPLL_STATUS_LOCK_MASK == ShiftLeft(ToBits(1), MPLL_STATUS_LOCK_POS)
MPLL_FREQ_MULT_MASK == ShiftLeft(ToBits(255), MPLL_FREQ_MULT_POS)
MPLL_FREQ_DIV_MASK == ShiftLeft(ToBits(255), MPLL_FREQ_DIV_POS)
MPLL_FREQ_POSTDIV_MASK == ShiftLeft(ToBits(255), MPLL_FREQ_POSTDIV_POS)

\* The devices of the element table.
MpllDevices == 0 .. (MPLL_CLOCK_IDX_COUNT - 1)

\* One struct mod_mpll_clock_config, without the fields the driver's API
\* never reads (reg_base is the device's register block, mpll_regs[dev]).
MpllConfig(default_width, timer_id) ==
    [control_reg_offset |-> MPLL_CTRL_REG_OFFSET,
     status_reg_offset |-> MPLL_STATUS_REG_OFFSET,
     freq_reg_offset |-> MPLL_FREQ_REG_OFFSET,
     default_width |-> default_width,
     ref_frequency |-> 24000000,
     timer_id |-> timer_id]

\* The element table of example_config.c.
mpll_clock_element_table ==
    (MPLL_CLOCK_IDX_MAIN :>
        MpllConfig(MOD_MPLL_CLOCK_REG_WIDTH_32BIT, TIMER_ID))
    @@ (MPLL_CLOCK_IDX_SECONDARY :>
        MpllConfig(MOD_MPLL_CLOCK_REG_WIDTH_8BIT, TIMER_ID))

\* The bytes of a register block that the model keeps: the control, status
\* and frequency registers, four bytes each.
MpllOffsets == 0 .. 11

\* The bit addresses of the width-wide cell at offset.
WidthBits(width) ==
    CASE width = MOD_MPLL_CLOCK_REG_WIDTH_8BIT -> Uint8Bits
      [] width = MOD_MPLL_CLOCK_REG_WIDTH_32BIT -> Uint32Bits
      [] OTHER -> {}

\* mpll_reg_read(base, offset, width): the uint32_t it returns; mem is the
\* register block at base (little-endian).
mpll_reg_read(mem, offset, width) ==
    {b \in WidthBits(width) : (8 * offset + b) \in mem}

\* A write that ignores the mask.
mpll_reg_write_Unmasked(mem, offset, value, mask, width) ==
    (mem \ {8 * offset + b : b \in WidthBits(width)})
    \cup {8 * offset + b : b \in value \cap WidthBits(width)}

\* A masked write that merges over the previous content without clearing
\* the masked bits first.
mpll_reg_write_OrOnly(mem, offset, value, mask, width) ==
    mem \cup {8 * offset + b : b \in (value \cap mask) \cap WidthBits(width)}

\* mpll_reg_write(base, offset, value, mask, width): the register block
\* after it.
mpll_reg_write(mem, offset, value, mask, width) ==
    CASE width = MOD_MPLL_CLOCK_REG_WIDTH_8BIT ->
            LET current_value ==
                    mpll_reg_read(mem, offset, MOD_MPLL_CLOCK_REG_WIDTH_8BIT)
                merged ==
                    IF mask # ToBits(255)
                    THEN (current_value \cap (Uint32Bits \ mask))
                         \cup (value \cap mask)
                    ELSE value
            IN  (mem \ {8 * offset + b : b \in Uint8Bits})
                \cup {8 * offset + b : b \in merged \cap Uint8Bits}
      [] width = MOD_MPLL_CLOCK_REG_WIDTH_32BIT ->
            LET current_value ==
                    mpll_reg_read(mem, offset, MOD_MPLL_CLOCK_REG_WIDTH_32BIT)
                merged ==
                    IF mask # Uint32Bits
                    THEN (current_value \cap (Uint32Bits \ mask))
                         \cup (value \cap mask)
                    ELSE value
            IN  (mem \ {8 * offset + b : b \in Uint32Bits})
                \cup {8 * offset + b : b \in merged}
      [] OTHER -> mem

\* mpll_wait_lock_condition(ctx): the lock bit of the status register, read
\* with the default width of the device.
mpll_wait_lock_condition(mem, cfg) ==
    (mpll_reg_read(mem, cfg.status_reg_offset, cfg.default_width)
         \cap MPLL_STATUS_LOCK_MASK) # {}

\* The hardware after the driver has set the enable bit: the PLL locks
\* within the timeout of the device (locked) and raises the lock bit of the
\* status register, or it does not and the bit stays low.
pll_settles(mem, cfg, locked) ==
    IF locked
    THEN mem \cup {8 * cfg.status_reg_offset + MPLL_STATUS_LOCK_POS}
    ELSE mem \ {8 * cfg.status_reg_offset + MPLL_STATUS_LOCK_POS}

\* timer_api->wait(timer_id, microseconds, cond, data) of the timer module:
\* FWK_SUCCESS when cond returned true before the timeout expired.
timer_api_wait(cond_seen_true) ==
    IF cond_seen_true THEN FWK_SUCCESS ELSE FWK_E_TIMEOUT

\* The zeroed struct mod_mpll_clock_freq_config of a fresh device context.
calloc_freq_config ==
    [frequency |-> U64(0), multiplier |-> 0, divider |-> 0,
     post_divider |-> 0]

\* mpll_clock_init, mpll_clock_element_init and mpll_clock_bind: the device
\* contexts before any device has started.
mpll_clock_bind(elements) ==
    [dev \in DOMAIN elements |->
        [timer_api |-> IF ~fwk_id_is_equal(elements[dev].timer_id, FWK_ID_NONE)
                       THEN TIMER_API
                       ELSE NULL,
         timer_id |-> elements[dev].timer_id,
         current_freq |-> calloc_freq_config,
         initialized |-> FALSE]]

fwk_module_is_valid_element_id(dev_id) == dev_id \in MpllDevices

\* The record of a call of the driver: arg is its freq_config or reg_params
\* argument, value what it wrote through its output pointer, current the
\* addressed register before a write_reg ({-1} when there is none), waited
\* and lock_observed whether setmpll waited for the lock and saw the lock
\* bit set, freq what getmpll wrote through its output pointer (NO_FREQ
\* when nothing) and trace the register accesses of the call in order.
NO_FREQ ==
    [frequency |-> U64(0), multiplier |-> -1, divider |-> -1,
     post_divider |-> -1]

MpllCall(op, dev_id, arg, ret) ==
    [op |-> op, dev_id |-> dev_id, arg |-> arg, ret |-> ret, value |-> {-1},
     current |-> {-1}, waited |-> FALSE, lock_observed |-> FALSE,
     locked |-> FALSE, freq |-> NO_FREQ, trace |-> << >>]

\* One call of mpll_reg_read or mpll_reg_write on the register at offset,
\* and whether the enable bit of the control register is set when it is
\* made.
Access(kind, offset, mem, cfg) ==
    [kind |-> kind, offset |-> offset,
     enabled |->
         (8 * cfg.control_reg_offset + MPLL_CTRL_ENABLE_POS) \in mem]

\* mpll_clock_setmpll: what it returns, the device contexts and the
\* registers after it.
mpll_clock_setmpll_result(table, regs, elements, dev_id, freq_config, locked) ==
    LET failed(ret) ==
            [ret |-> ret, table |-> table, regs |-> regs, waited |-> FALSE,
             lock_observed |-> FALSE, trace |-> << >>]
    IN  IF ~fwk_module_is_valid_element_id(dev_id)
        THEN failed(FWK_E_PARAM)
        ELSE IF freq_config = NULL_PARAMS
        THEN failed(FWK_E_PARAM)
        ELSE IF ~table[dev_id].initialized
        THEN failed(FWK_E_INIT)
        ELSE
        LET ctx == table[dev_id]
            cfg == elements[dev_id]
            disabled ==
                mpll_reg_read(regs[dev_id], cfg.control_reg_offset,
                              cfg.default_width) \ MPLL_CTRL_ENABLE_MASK
            mem1 == mpll_reg_write(regs[dev_id], cfg.control_reg_offset,
                                   disabled, Uint32Bits, cfg.default_width)
            freq_reg_value ==
                (ShiftLeft(ToBits(freq_config.multiplier), MPLL_FREQ_MULT_POS)
                     \cap MPLL_FREQ_MULT_MASK)
                \cup (ShiftLeft(ToBits(freq_config.divider), MPLL_FREQ_DIV_POS)
                          \cap MPLL_FREQ_DIV_MASK)
                \cup (ShiftLeft(ToBits(freq_config.post_divider),
                                MPLL_FREQ_POSTDIV_POS)
                          \cap MPLL_FREQ_POSTDIV_MASK)
            mem2 == mpll_reg_write(mem1, cfg.freq_reg_offset, freq_reg_value,
                                   Uint32Bits, cfg.default_width)
            mem3 == mpll_reg_write(mem2, cfg.control_reg_offset,
                                   disabled \cup MPLL_CTRL_ENABLE_MASK,
                                   Uint32Bits, cfg.default_width)
            mem4 == pll_settles(mem3, cfg, locked)
            waited == ctx.timer_api # NULL
            lock_observed == waited /\ mpll_wait_lock_condition(mem4, cfg)
            status == IF waited THEN timer_api_wait(lock_observed)
                      ELSE FWK_SUCCESS
            trace ==
                <<Access("read", cfg.control_reg_offset, regs[dev_id], cfg),
                  Access("write", cfg.control_reg_offset, regs[dev_id], cfg),
                  Access("write", cfg.freq_reg_offset, mem1, cfg),
                  Access("write", cfg.control_reg_offset, mem2, cfg)>>
                \o (IF waited
                    THEN <<Access("read", cfg.status_reg_offset, mem4, cfg)>>
                    ELSE << >>)
        IN  IF waited /\ status # FWK_SUCCESS
            THEN [ret |-> FWK_E_TIMEOUT, table |-> table,
                  regs |-> [regs EXCEPT ![dev_id] = mem4],
                  waited |-> waited, lock_observed |-> lock_observed,
                  trace |-> trace]
            ELSE [ret |-> FWK_SUCCESS,
                  table |-> [table EXCEPT ![dev_id].current_freq = freq_config],
                  regs |-> [regs EXCEPT ![dev_id] = mem4],
                  waited |-> waited, lock_observed |-> lock_observed,
                  trace |-> trace]

\* mpll_clock_getmpll: what it returns and what it stores through
\* freq_config (NO_FREQ when it stores nothing); freq_config is the
\* caller's structure as it is before the call, NULL_PARAMS for a NULL
\* pointer.
mpll_clock_getmpll_result(table, regs, elements, dev_id, freq_config) ==
    IF ~fwk_module_is_valid_element_id(dev_id)
    THEN [ret |-> FWK_E_PARAM, freq |-> NO_FREQ, trace |-> << >>]
    ELSE IF freq_config = NULL_PARAMS
    THEN [ret |-> FWK_E_PARAM, freq |-> NO_FREQ, trace |-> << >>]
    ELSE IF ~table[dev_id].initialized
    THEN [ret |-> FWK_E_INIT, freq |-> NO_FREQ, trace |-> << >>]
    ELSE
    LET cfg == elements[dev_id]
        freq_reg_value ==
            mpll_reg_read(regs[dev_id], cfg.freq_reg_offset,
                          cfg.default_width)
        multiplier ==
            FromBits(ShiftRight(freq_reg_value \cap MPLL_FREQ_MULT_MASK,
                                MPLL_FREQ_MULT_POS))
        divider ==
            FromBits(ShiftRight(freq_reg_value \cap MPLL_FREQ_DIV_MASK,
                                MPLL_FREQ_DIV_POS))
        post_divider ==
            FromBits(ShiftRight(freq_reg_value \cap MPLL_FREQ_POSTDIV_MASK,
                                MPLL_FREQ_POSTDIV_POS))
    IN  [ret |-> FWK_SUCCESS,
         freq |->
             [frequency |->
                  IF divider = 0 \/ post_divider = 0
                  THEN U64(0)
                  ELSE U64Div(U64Mul(U64(cfg.ref_frequency), multiplier),
                              divider * post_divider),
              multiplier |-> multiplier, divider |-> divider,
              post_divider |-> post_divider],
         trace |-> <<Access("read", cfg.freq_reg_offset, regs[dev_id],
                            cfg)>>]

\* mpll_clock_read_reg: what it returns and what it stores through value
\* ({-1} when it stores nothing).
mpll_clock_read_reg_result(table, regs, dev_id, reg_params, value) ==
    IF ~fwk_module_is_valid_element_id(dev_id)
    THEN [ret |-> FWK_E_PARAM, value |-> {-1}, accessed |-> FALSE]
    ELSE IF reg_params = NULL_PARAMS \/ value = NULL
    THEN [ret |-> FWK_E_PARAM, value |-> {-1}, accessed |-> FALSE]
    ELSE IF reg_params.width >= MOD_MPLL_CLOCK_REG_WIDTH_COUNT
    THEN [ret |-> FWK_E_PARAM, value |-> {-1}, accessed |-> FALSE]
    ELSE IF ~table[dev_id].initialized
    THEN [ret |-> FWK_E_INIT, value |-> {-1}, accessed |-> FALSE]
    ELSE [ret |-> FWK_SUCCESS,
          value |-> mpll_reg_read(regs[dev_id], reg_params.offset,
                                  reg_params.width),
          accessed |-> TRUE]

\* mpll_clock_write_reg: what it returns and the registers after it.
\* A write_reg that does not test the initialized flag.
mpll_clock_write_reg_result_NoInit(table, regs, dev_id, reg_params) ==
    IF ~fwk_module_is_valid_element_id(dev_id)
    THEN [ret |-> FWK_E_PARAM, regs |-> regs, accessed |-> FALSE]
    ELSE IF reg_params = NULL_PARAMS
    THEN [ret |-> FWK_E_PARAM, regs |-> regs, accessed |-> FALSE]
    ELSE IF reg_params.width >= MOD_MPLL_CLOCK_REG_WIDTH_COUNT
    THEN [ret |-> FWK_E_PARAM, regs |-> regs, accessed |-> FALSE]
    ELSE [ret |-> FWK_SUCCESS,
          regs |-> [regs EXCEPT ![dev_id] =
                       mpll_reg_write(regs[dev_id], reg_params.offset,
                                      reg_params.value, reg_params.mask,
                                      reg_params.width)],
          accessed |-> TRUE]

mpll_clock_write_reg_result(table, regs, dev_id, reg_params) ==
    IF ~fwk_module_is_valid_element_id(dev_id)
    THEN [ret |-> FWK_E_PARAM, regs |-> regs, accessed |-> FALSE]
    ELSE IF reg_params = NULL_PARAMS
    THEN [ret |-> FWK_E_PARAM, regs |-> regs, accessed |-> FALSE]
    ELSE IF reg_params.width >= MOD_MPLL_CLOCK_REG_WIDTH_COUNT
    THEN [ret |-> FWK_E_PARAM, regs |-> regs, accessed |-> FALSE]
    ELSE IF ~table[dev_id].initialized
    THEN [ret |-> FWK_E_INIT, regs |-> regs, accessed |-> FALSE]
    ELSE [ret |-> FWK_SUCCESS,
          regs |-> [regs EXCEPT ![dev_id] =
                       mpll_reg_write(regs[dev_id], reg_params.offset,
                                      reg_params.value, reg_params.mask,
                                      reg_params.width)],
          accessed |-> TRUE]

\* The sensor manager's variables, which the driver leaves alone.
sensor_vars ==
    <<config, sensors, out, last, calls, hist, sampled, granted, fg>>

\* mpll_clock_start for the element dev_id.
mpll_clock_start(dev_id) ==
    /\ dev_ctx_table' = [dev_ctx_table EXCEPT ![dev_id].initialized = TRUE]
    /\ mpll_last' = MpllCall("start", dev_id, NULL_PARAMS, FWK_SUCCESS)
    /\ UNCHANGED <<mpll_elements, mpll_regs, sensor_vars>>

mpll_clock_setmpll(dev_id, freq_config, locked) ==
    \E r \in {mpll_clock_setmpll_result(dev_ctx_table, mpll_regs,
                                        mpll_elements, dev_id, freq_config,
                                        locked)} :
        /\ dev_ctx_table' = r.table
        /\ mpll_regs' = r.regs
        /\ mpll_last' = [MpllCall("setmpll", dev_id, freq_config, r.ret)
                            EXCEPT !.waited = r.waited,
                                   !.lock_observed = r.lock_observed,
                                   !.locked = locked,
                                   !.trace = r.trace]
        /\ UNCHANGED <<mpll_elements, sensor_vars>>

mpll_clock_getmpll(dev_id, freq_config) ==
    \E r \in {mpll_clock_getmpll_result(dev_ctx_table, mpll_regs,
                                        mpll_elements, dev_id,
                                        freq_config)} :
        /\ mpll_last' = [MpllCall("getmpll", dev_id, freq_config, r.ret)
                            EXCEPT !.freq = r.freq, !.trace = r.trace]
        /\ UNCHANGED <<mpll_elements, dev_ctx_table, mpll_regs, sensor_vars>>

mpll_clock_read_reg(dev_id, reg_params, value) ==
    \E r \in {mpll_clock_read_reg_result(dev_ctx_table, mpll_regs, dev_id,
                                         reg_params, value)} :
        /\ mpll_last' =
               [MpllCall("read_reg", dev_id, reg_params, r.ret)
                   EXCEPT !.value = r.value,
                          !.trace =
                              IF r.accessed
                              THEN <<Access("read", reg_params.offset,
                                            mpll_regs[dev_id],
                                            mpll_elements[dev_id])>>
                              ELSE << >>]
        /\ UNCHANGED <<mpll_elements, dev_ctx_table, mpll_regs, sensor_vars>>

mpll_clock_write_reg(dev_id, reg_params) ==
    \E r \in {mpll_clock_write_reg_result(dev_ctx_table, mpll_regs, dev_id,
                                          reg_params)} :
        /\ mpll_regs' = r.regs
        /\ mpll_last' =
               [MpllCall("write_reg", dev_id, reg_params, r.ret)
                   EXCEPT !.current =
                              IF r.ret = FWK_SUCCESS
                              THEN mpll_reg_read(mpll_regs[dev_id],
                                                 reg_params.offset,
                                                 reg_params.width)
                              ELSE {-1},
                          !.trace =
                              IF r.accessed
                              THEN <<Access("write", reg_params.offset,
                                            mpll_regs[dev_id],
                                            mpll_elements[dev_id])>>
                              ELSE << >>]
        /\ UNCHANGED <<mpll_elements, dev_ctx_table, sensor_vars>>

\* The driver after init, element_init and bind over the element table
\* elements, every register zero.
MpllInitWith(elements) ==
    /\ mpll_elements = elements
    /\ dev_ctx_table = mpll_clock_bind(elements)
    /\ mpll_regs = [dev \in DOMAIN elements |-> {}]
    /\ mpll_last = MpllCall("bind", -1, NULL_PARAMS, FWK_SUCCESS)

\* No foreground call of the sensor manager in progress.
fg_none ==
    [op |-> "none", type |-> -1, detector_id |-> -1, callback |-> "-",
     requester_id |-> "-", pc |-> "-", i |-> -1, k |-> 0, tmp |-> 0]

(***************************************************************************)
(* A foreground call of register_notification or unregister_notification,  *)
(* one shared-memory access at a time, so that the interrupt handler can   *)
(* run between any two of them.  fg holds the arguments of the call, where *)
(* it is (pc: the duplicate check, the search, the stores), the loop index *)
(* or slot i, the index k of the next store and the count it has loaded.   *)
(***************************************************************************)
\* Stores that mark the slot active before they fill it.
register_stores_ActiveFirst ==
    <<"active", "callback", "requester_id", "detector_id",
      "count_load", "count_store">>

\* The stores of register_notification into the slot it found and the
\* update of the active count, in program order; the increment is a load
\* and a store.
register_stores ==
    <<"callback", "requester_id", "detector_id", "active",
      "count_load", "count_store">>

\* Stores that clear the identity of the slot before they mark it inactive.
unregister_stores_RetireLast ==
    <<"requester_id", "callback", "detector_id", "active",
      "count_load", "count_store">>

\* The stores of unregister_notification into the slot of the requester and
\* the update of the active count, in program order.
unregister_stores ==
    <<"active", "callback", "requester_id", "detector_id",
      "count_load", "count_store">>

fg_call(op, type, detector_id, callback, requester_id) ==
    [op |-> op, type |-> type, detector_id |-> detector_id,
     callback |-> callback, requester_id |-> requester_id,
     pc |-> IF op = "register" THEN "check" ELSE "find",
     i |-> 0, k |-> 0, tmp |-> 0]

\* The sensor contexts after the call f has stored field into slot f.i.
fg_store(s, f, field) ==
    LET t == TableOf(s, f.type, f.detector_id)
        reg == t.regs[f.i]
        filling == (f.op = "register")
    IN  CASE field = "callback" ->
                WithTable(s, f.type, f.detector_id,
                    [t.regs EXCEPT ![f.i].callback =
                        IF filling THEN f.callback ELSE NULL], t.count)
          [] field = "requester_id" ->
                WithTable(s, f.type, f.detector_id,
                    [t.regs EXCEPT ![f.i].requester_id =
                        IF filling THEN f.requester_id ELSE FWK_ID_NONE],
                    t.count)
          [] field = "detector_id" ->
                WithTable(s, f.type, f.detector_id,
                    [t.regs EXCEPT ![f.i].detector_id =
                        IF filling THEN f.detector_id ELSE 0], t.count)
          [] field = "active" ->
                WithTable(s, f.type, f.detector_id,
                    [t.regs EXCEPT ![f.i].active = filling], t.count)
          [] field = "count_load" -> s
          [] field = "count_store" ->
                WithTable(s, f.type, f.detector_id, t.regs,
                    IF filling THEN f.tmp + 1 ELSE f.tmp - 1)

\* The foreground call returns ret.
fg_return(ret, slot) ==
    /\ last' = Op(fg.op, fg.type, fg.detector_id,
                  IF fg.op = "register" THEN fg.callback ELSE "-",
                  fg.requester_id, ret, slot)
    /\ granted' = GrantedAfter(granted, fg.op, fg.type, fg.detector_id,
                               fg.requester_id, ret)
    /\ fg' = fg_none

\* The foreground enters register_notification; its parameter checks pass.
fg_register_notification(type, detector_id, callback, requester_id) ==
    /\ fg.op = "none"
    /\ RegisterParamsValid(type, detector_id, callback)
    /\ fg' = fg_call("register", type, detector_id, callback, requester_id)
    /\ calls' = << >>
    /\ UNCHANGED <<config, sensors, out, last, hist, sampled, granted,
                   mpll_vars>>

\* The foreground enters unregister_notification; its parameter checks pass.
fg_unregister_notification(type, detector_id, requester_id) ==
    /\ fg.op = "none"
    /\ UnregisterParamsValid(type, detector_id)
    /\ fg' = fg_call("unregister", type, detector_id, "-", requester_id)
    /\ calls' = << >>
    /\ UNCHANGED <<config, sensors, out, last, hist, sampled, granted,
                   mpll_vars>>

\* The next access of the foreground call in progress: one iteration of a
\* loop, or one store.
fg_step ==
    /\ fg.op # "none"
    /\ calls' = << >>
    /\ UNCHANGED <<config, out, hist, sampled, mpll_vars>>
    /\ \E t \in {TableOf(sensors, fg.type, fg.detector_id)} :
         CASE fg.pc = "check" ->
                IF fg.i < t.max
                THEN IF t.regs[fg.i].active
                        /\ fwk_id_is_equal(t.regs[fg.i].requester_id,
                                           fg.requester_id)
                     THEN fg_return(FWK_E_STATE, -1) /\ UNCHANGED sensors
                     ELSE /\ fg' = [fg EXCEPT !.i = fg.i + 1]
                          /\ UNCHANGED <<sensors, last, granted>>
                ELSE /\ fg' = [fg EXCEPT !.pc = "find", !.i = 0]
                     /\ UNCHANGED <<sensors, last, granted>>
           [] fg.pc = "find" /\ fg.op = "register" ->
                IF fg.i < t.max
                THEN IF ~t.regs[fg.i].active
                     THEN /\ fg' = [fg EXCEPT !.pc = "store", !.k = 1]
                          /\ UNCHANGED <<sensors, last, granted>>
                     ELSE /\ fg' = [fg EXCEPT !.i = fg.i + 1]
                          /\ UNCHANGED <<sensors, last, granted>>
                ELSE fg_return(FWK_E_NOMEM, -1) /\ UNCHANGED sensors
           [] fg.pc = "find" /\ fg.op = "unregister" ->
                IF fg.i < t.max
                THEN IF t.regs[fg.i].active
                        /\ fwk_id_is_equal(t.regs[fg.i].requester_id,
                                           fg.requester_id)
                     THEN /\ fg' = [fg EXCEPT !.pc = "store", !.k = 1]
                          /\ UNCHANGED <<sensors, last, granted>>
                     ELSE /\ fg' = [fg EXCEPT !.i = fg.i + 1]
                          /\ UNCHANGED <<sensors, last, granted>>
                ELSE fg_return(FWK_E_ACCESS, -1) /\ UNCHANGED sensors
           [] fg.pc = "store" ->
                \E stores \in {IF fg.op = "register" THEN register_stores
                               ELSE unregister_stores} :
                    /\ sensors' = fg_store(sensors, fg, stores[fg.k])
                    /\ IF fg.k = Len(stores)
                       THEN fg_return(FWK_SUCCESS, fg.i)
                       ELSE /\ fg' = [fg EXCEPT
                                        !.k = fg.k + 1,
                                        !.tmp = IF stores[fg.k] = "count_load"
                                                THEN t.count ELSE fg.tmp]
                            /\ UNCHANGED <<last, granted>>

(***************************************************************************)
(* Callbacks that call the notification API.  The dispatch loops read the  *)
(* tables in place, one slot per iteration, so what an invoked callback    *)
(* does to a table is seen by the rest of the pass.                        *)
(***************************************************************************)
\* What a callback does when it is invoked with (type, detector_id, ...,
\* source_id): the calls of the API it makes, in order.  "cbA" and "cbB"
\* make none, as the callbacks of the example client; the others register
\* or unregister a module on the table of the detector that interrupted, or
\* on the wildcard table of its type.
CallbackBody(callback, type, detector_id, source_id) ==
    CASE callback = "cbUnregisterM2" ->
            <<[op |-> "unregister", type |-> type,
               detector_id |-> detector_id, callback |-> "-",
               requester_id |-> "M2"]>>
      [] callback = "cbRegisterM3" ->
            <<[op |-> "register", type |-> type,
               detector_id |-> detector_id, callback |-> "cbA",
               requester_id |-> "M3"]>>
      [] callback = "cbRegisterM2" ->
            <<[op |-> "register", type |-> type,
               detector_id |-> detector_id, callback |-> "cbB",
               requester_id |-> "M2"]>>
      [] callback = "cbWildcardM3" ->
            <<[op |-> "register", type |-> type,
               detector_id |-> UINT_MAX, callback |-> "cbA",
               requester_id |-> "M3"]>>
      [] OTHER -> << >>

\* The loop iterations and stores one call c of the API runs through on the
\* sensor contexts s: register_notification walks the duplicate check to
\* its end or to the requester's slot and the search to the first inactive
\* slot, then stores; unregister_notification walks to the requester's slot,
\* then stores.
ApiSteps(s, c) ==
    IF c.op = "register"
    THEN IF ~RegisterParamsValid(c.type, c.detector_id, c.callback)
         THEN 0
         ELSE LET t == TableOf(s, c.type, c.detector_id)
                  d == FindRegistration(t.regs, t.max, c.requester_id)
                  i == FindEmptySlot(t.regs, t.max)
              IN  IF d < t.max THEN d + 1
                  ELSE IF i < t.max
                  THEN t.max + (i + 1) + Len(register_stores)
                  ELSE t.max + t.max
    ELSE IF ~UnregisterParamsValid(c.type, c.detector_id)
         THEN 0
         ELSE LET t == TableOf(s, c.type, c.detector_id)
                  i == FindRegistration(t.regs, t.max, c.requester_id)
              IN  IF i < t.max THEN (i + 1) + Len(unregister_stores)
                  ELSE t.max

\* The iterations of the scan of get_sensor_and_detector_from_irq.
ScanSteps(cfg, irq) ==
    LET r == get_sensor_and_detector_from_irq(cfg, irq)
    IN  IF r.found THEN r.type * DETECTORS_PER_SENSOR + r.detector_id + 1
        ELSE SENSOR_TYPE_COUNT * DETECTORS_PER_SENSOR

\* The sensor contexts and the registrations in force after the calls of
\* body, each run to its end in interrupt context.
RECURSIVE RunCallback(_, _)
RunCallback(st, body) ==
    IF body = << >>
    THEN st
    ELSE LET c == Head(body)
             r == IF c.op = "register"
                  THEN RegisterResult(st.sensors, c.type, c.detector_id,
                                      c.callback, c.requester_id)
                  ELSE UnregisterResult(st.sensors, c.type, c.detector_id,
                                        c.requester_id)
         IN  RunCallback(
                 [st EXCEPT
                     !.sensors = r.sensors,
                     !.granted = GrantedAfter(@, c.op, c.type, c.detector_id,
                                              c.requester_id, r.ret),
                     !.call_steps =
                         IF ApiSteps(st.sensors, c) > @
                         THEN ApiSteps(st.sensors, c) ELSE @],
                 Tail(body))

\* A loop that starts again from slot 0 whenever the callback it invoked
\* changed the table it walks.
RECURSIVE NotifyTableLive_Restart(_, _, _, _, _, _, _)
NotifyTableLive_Restart(st, i, type, detector_id, interrupt_type, value, scope) ==
    LET t == TableOf(st.sensors, scope[1], scope[2])
    IN  IF ~(i < t.max)
        THEN st
        ELSE LET reg == t.regs[i]
                 ran == RunCallback(
                            [st EXCEPT
                                !.calls =
                                    Append(@, Callback(reg, type,
                                                       detector_id,
                                                       interrupt_type, value,
                                                       scope, i)),
                                !.steps = @ + 1],
                            CallbackBody(reg.callback, type, detector_id,
                                         reg.requester_id))
             IN  IF reg.active /\ reg.callback # NULL
                 THEN NotifyTableLive_Restart(
                          ran,
                          IF TableOf(ran.sensors, scope[1], scope[2]) = t
                          THEN i + 1 ELSE 0,
                          type, detector_id, interrupt_type, value, scope)
                 ELSE NotifyTableLive_Restart(
                          [st EXCEPT !.steps = @ + 1], i + 1, type,
                          detector_id, interrupt_type, value, scope)

\* One loop of notify_registered_modules from slot i on, over the table
\* scope as it is when each slot is reached; every slot it reaches is one
\* iteration.
RECURSIVE NotifyTableLive(_, _, _, _, _, _, _)
NotifyTableLive(st, i, type, detector_id, interrupt_type, value, scope) ==
    LET t == TableOf(st.sensors, scope[1], scope[2])
    IN  IF ~(i < t.max)
        THEN st
        ELSE LET reg == t.regs[i]
             IN  IF reg.active /\ reg.callback # NULL
                 THEN NotifyTableLive(
                          RunCallback(
                              [st EXCEPT
                                  !.calls =
                                      Append(@, Callback(reg, type,
                                                         detector_id,
                                                         interrupt_type,
                                                         value, scope, i)),
                                  !.steps = @ + 1],
                              CallbackBody(reg.callback, type, detector_id,
                                           reg.requester_id)),
                          i + 1, type, detector_id, interrupt_type, value,
                          scope)
                 ELSE NotifyTableLive([st EXCEPT !.steps = @ + 1], i + 1,
                                      type, detector_id, interrupt_type,
                                      value, scope)

\* notify_registered_modules when callbacks may call the API: the detector
\* table, then the global table.
notify_registered_modules_live(st, type, detector_id, interrupt_type, value) ==
    NotifyTableLive(
        NotifyTableLive(st, 0, type, detector_id, interrupt_type, value,
                        <<type, detector_id>>),
        0, type, detector_id, interrupt_type, value, <<type, UINT_MAX>>)

\* One run of the handler for a line of a detector, with callbacks that may
\* call the API.
sensor_interrupt_handler_live(irq, value) ==
    \E r \in {get_sensor_and_detector_from_irq(config, irq)} :
        /\ r.found
        /\ \E dcfg \in {ConfigOf(config, r.type, r.detector_id)},
              detector_ctx \in {sensors[r.type].detectors[r.detector_id]} :
           \E was_in_normal_range \in {detector_ctx.is_in_normal_range},
              after \in {SampleDetector(detector_ctx, dcfg, value)} :
           \E interrupt_type \in
                  {determine_interrupt_type(value, was_in_normal_range, dcfg)},
              notify \in {ShouldNotify(dcfg, was_in_normal_range,
                                       after.is_in_normal_range)} :
           \E st \in {[sensors |->
                           [sensors EXCEPT
                               ![r.type].detectors[r.detector_id] = after],
                       calls |-> << >>, granted |-> granted,
                       steps |-> ScanSteps(config, irq),
                       call_steps |-> 0]} :
           \E done \in {IF notify
                        THEN notify_registered_modules_live(
                                 st, r.type, r.detector_id, interrupt_type,
                                 value)
                        ELSE st} :
               /\ sensors' = done.sensors
               /\ calls' = done.calls
               /\ granted' = done.granted
               /\ last' = [Irq(irq, r.type, r.detector_id, value, TRUE,
                               notify,
                               IF notify THEN interrupt_type ELSE -1)
                              EXCEPT !.steps = done.steps,
                                     !.call_steps = done.call_steps]
               /\ sampled' = sampled \cup {<<r.type, r.detector_id>>}
               /\ UNCHANGED <<config, out, hist, fg, mpll_vars>>

(***************************************************************************)
(* Specifications.                                                         *)
(***************************************************************************)
\* The state after sensor_manager_init and sensor_manager_start.
SensorInitWith(cfg) ==
    /\ config = cfg
    /\ sensors = sensor_manager_init(cfg)
    /\ out = 0
    /\ last = Op("start", -1, -1, "-", "-", FWK_SUCCESS, -1)
    /\ calls = << >>
    /\ hist = << >>
    /\ sampled = {}
    /\ granted = {}
    /\ fg = fg_none

\* The sensor manager after start-up, beside the MPLL driver after its bind
\* stage under the element table of example_config.c.
InitWith(cfg) ==
    SensorInitWith(cfg) /\ MpllInitWith(mpll_clock_element_table)

Init == InitWith(sensor_manager_config)

\* The calls of register_notification the callers make, as <<type,
\* detector_id, callback, requester_id>>: three modules on detector 0 of
\* the temperature sensor and on the temperature wildcard, one of them also
\* with a second callback and on detector 1; and calls with a bad type, a
\* bad detector id or no callback.
RegisterInputs ==
    ({SENSOR_TYPE_TEMPERATURE} \X {0, UINT_MAX} \X {"cbA"}
        \X {"M1", "M2", "M3"})
    \cup {<<SENSOR_TYPE_TEMPERATURE, 0, "cbB", "M1">>,
          <<SENSOR_TYPE_COUNT, 0, "cbA", "M1">>,
          <<SENSOR_TYPE_TEMPERATURE, DETECTORS_PER_SENSOR, "cbA", "M1">>,
          <<SENSOR_TYPE_TEMPERATURE, 0, NULL, "M1">>,
          <<SENSOR_TYPE_TEMPERATURE, 0, NULL, "M3">>}

\* The calls of unregister_notification, as <<type, detector_id,
\* requester_id>>.
UnregisterInputs ==
    ({SENSOR_TYPE_TEMPERATURE} \X {0, UINT_MAX} \X {"M1", "M2", "M3"})
    \cup {<<SENSOR_TYPE_COUNT, 0, "M1">>,
          <<SENSOR_TYPE_TEMPERATURE, DETECTORS_PER_SENSOR, "M1">>}

Register(inputs) ==
    \E c \in inputs : register_notification(c[1], c[2], c[3], c[4])

Unregister(inputs) ==
    \E c \in inputs : unregister_notification(c[1], c[2], c[3])

GetValue(inputs) ==
    \E c \in inputs : get_sensor_value(c[1], c[2], c[3])

\* The handler runs for a line sensor_manager_start bound it to, and the
\* read of the register returns one of values.
Interrupt(irqs, values, window) ==
    \E irq \in irqs \cap sensor_manager_start(sensors, config),
       value \in values :
        sensor_interrupt_handler(irq, value, window)

\* The handler runs while the current line is one no detector has.
UnknownInterrupt(irqs, window) ==
    \E irq \in irqs : sensor_interrupt_handler(irq, 0, window)

\* The registration tables under the calls of the API alone.
RegisterStep == Register(RegisterInputs)
UnregisterStep == Unregister(UnregisterInputs)
NextReg == RegisterStep \/ UnregisterStep

SpecReg == Init /\ [][NextReg]_vars

\* The whole subsystem: calls of the API and interrupts.  One module holds
\* the temperature wildcard and direct registrations on both temperature
\* detectors, a second one shares detector 1 with it and holds the voltage
\* wildcard; detector 1 of the temperature sensor is the one that interrupts.
AllRegisterInputs ==
    {<<SENSOR_TYPE_TEMPERATURE, UINT_MAX, "cbA", "M1">>,
     <<SENSOR_TYPE_TEMPERATURE, 1, "cbB", "M1">>,
     <<SENSOR_TYPE_TEMPERATURE, 0, "cbA", "M1">>,
     <<SENSOR_TYPE_TEMPERATURE, 1, "cbA", "M2">>,
     <<SENSOR_TYPE_VOLTAGE, UINT_MAX, "cbA", "M2">>,
     <<SENSOR_TYPE_TEMPERATURE, 1, NULL, "M2">>}

AllUnregisterInputs ==
    {<<SENSOR_TYPE_TEMPERATURE, UINT_MAX, "M1">>,
     <<SENSOR_TYPE_TEMPERATURE, 1, "M1">>,
     <<SENSOR_TYPE_TEMPERATURE, 0, "M1">>,
     <<SENSOR_TYPE_TEMPERATURE, 1, "M2">>,
     <<SENSOR_TYPE_VOLTAGE, UINT_MAX, "M2">>,
     <<SENSOR_TYPE_TEMPERATURE, UINT_MAX, "M2">>}

AllRegister == Register(AllRegisterInputs)
AllUnregister == Unregister(AllUnregisterInputs)
AllInterrupt == Interrupt({33}, {50, 95}, 0)
AllUnknownInterrupt == UnknownInterrupt({99}, 0)
Next == AllRegister \/ AllUnregister \/ AllInterrupt \/ AllUnknownInterrupt

Spec == Init /\ [][Next]_vars

\* Sample sequences: detector 0 of the temperature sensor (low 10, high 85)
\* interrupts, with values inside, outside and on the ends of its band, and
\* one module subscribes.
EdgeRegister ==
    Register({<<SENSOR_TYPE_TEMPERATURE, 0, "cbA", "M1">>})
EdgeTempInterrupt ==
    Interrupt({32}, {10, 40, 50, 85, 86, 95, 96}, MaxHist)
NextEdge == EdgeRegister \/ EdgeTempInterrupt

SpecEdge == Init /\ [][NextEdge]_vars

\* Reads of the cached values, under the configuration in which a disabled
\* detector is sampled through a shared line.
\* The calls of get_sensor_value, as <<type, detector_id, value>>.
GetValueInputs ==
    {<<SENSOR_TYPE_TEMPERATURE, 0, "&value">>,
     <<SENSOR_TYPE_TEMPERATURE, 1, "&value">>,
     <<SENSOR_TYPE_VOLTAGE, 0, "&value">>,
     <<SENSOR_TYPE_FREQUENCY, 1, "&value">>,
     <<SENSOR_TYPE_TEMPERATURE, 1, NULL>>,
     <<SENSOR_TYPE_TEMPERATURE, 0, NULL>>,
     <<SENSOR_TYPE_COUNT, 0, "&value">>,
     <<SENSOR_TYPE_FREQUENCY, DETECTORS_PER_SENSOR, "&value">>,
     <<SENSOR_TYPE_TEMPERATURE, UINT_MAX, "&value">>}

SharedGetValue == GetValue(GetValueInputs)
SharedInterrupt == Interrupt({32, 34}, {50, 95}, 0)
SharedUnknownInterrupt == UnknownInterrupt({99}, 0)
NextShared == SharedGetValue \/ SharedInterrupt \/ SharedUnknownInterrupt

InitShared == InitWith(shared_line_config)

SpecShared == InitShared /\ [][NextShared]_vars

\* Reads interleaved with samples of the two temperature detectors, with
\* the handler runs recorded.
ReadInputs ==
    {<<SENSOR_TYPE_TEMPERATURE, 0, "&value">>,
     <<SENSOR_TYPE_TEMPERATURE, 1, "&value">>,
     <<SENSOR_TYPE_VOLTAGE, 0, "&value">>,
     <<SENSOR_TYPE_TEMPERATURE, UINT_MAX, "&value">>,
     <<SENSOR_TYPE_COUNT, 0, "&value">>,
     <<SENSOR_TYPE_TEMPERATURE, 0, NULL>>}

ReadGetValue == GetValue(ReadInputs)
ReadInterrupt == Interrupt({32, 33}, {50, 95}, MaxHist)
NextRead == ReadGetValue \/ ReadInterrupt

SpecRead == Init /\ [][NextRead]_vars

\* The threshold evaluator under every configuration of detector 0 of the
\* temperature sensor with thresholds in 0 .. MaxThreshold, monitoring on or
\* off, low above high included, and every sample in 0 .. MaxThreshold + 1.
EvalConfigs ==
    {[sensor_manager_config EXCEPT
         !.temp_detectors[0] = DetectorConfig(0, 32, TRUE, low, high, te)] :
        low \in 0 .. MaxThreshold, high \in 0 .. MaxThreshold,
        te \in BOOLEAN}

InitEval == \E cfg \in EvalConfigs : InitWith(cfg)

EvalRegister ==
    Register({<<SENSOR_TYPE_TEMPERATURE, 0, "cbA", "M1">>})
EvalInterrupt == Interrupt({32}, 0 .. (MaxThreshold + 1), 0)
NextEval == EvalRegister \/ EvalInterrupt

SpecEval == InitEval /\ [][NextEval]_vars

\* Samples of detector 0 of the temperature sensor interleaved with runs of
\* the handler for a line no detector is configured with, with the handler
\* runs recorded, and one module subscribing.
UnknownRegister ==
    Register({<<SENSOR_TYPE_TEMPERATURE, 0, "cbA", "M1">>})
UnknownTempInterrupt == Interrupt({32}, {50, 95}, MaxHist)
UnknownLineInterrupt == UnknownInterrupt({99}, MaxHist)
NextUnknown ==
    UnknownRegister \/ UnknownTempInterrupt \/ UnknownLineInterrupt

SpecUnknown == Init /\ [][NextUnknown]_vars

\* The three calls of the API and the interrupt of one detector together.
FrameCalls ==
    {<<SENSOR_TYPE_TEMPERATURE, 1, "cbA", "M1">>,
     <<SENSOR_TYPE_TEMPERATURE, UINT_MAX, "cbA", "M1">>,
     <<SENSOR_TYPE_TEMPERATURE, 1, "cbA", "M2">>}

FrameRegister == Register(FrameCalls)
FrameUnregister == Unregister({<<c[1], c[2], c[4]>> : c \in FrameCalls})
FrameGetValue ==
    GetValue({<<SENSOR_TYPE_TEMPERATURE, 1, "&value">>,
              <<SENSOR_TYPE_TEMPERATURE, 0, "&value">>,
              <<SENSOR_TYPE_TEMPERATURE, 1, NULL>>})
FrameInterrupt == Interrupt({33}, {50, 95}, 0)
NextFrame ==
    FrameRegister \/ FrameUnregister \/ FrameGetValue \/ FrameInterrupt

SpecFrame == Init /\ [][NextFrame]_vars

\* The classifier alone: determine_interrupt_type applied to every sample
\* in 0 .. MaxThreshold + 1 and either previous status, under every
\* configuration of EvalConfigs.
determine_interrupt_type_call(type, detector_id, current_value, was_in_normal_range) ==
    /\ last' = [op |-> "classify", type |-> type,
                detector_id |-> detector_id, value |-> current_value,
                was_in_normal_range |-> was_in_normal_range,
                interrupt_type |->
                    determine_interrupt_type(
                        current_value, was_in_normal_range,
                        ConfigOf(config, type, detector_id))]
    /\ UNCHANGED <<config, sensors, out, calls, hist, sampled, granted, fg,
                   mpll_vars>>

Classify ==
    \E current_value \in 0 .. (MaxThreshold + 1),
       was_in_normal_range \in BOOLEAN :
        determine_interrupt_type_call(SENSOR_TYPE_TEMPERATURE, 0,
                                      current_value, was_in_normal_range)

NextClassify == Classify

SpecClassify == InitEval /\ [][NextClassify]_vars

\* The MPLL driver under every element table of two devices: each device
\* with byte or word access by default, and with a timer or without one
\* (timer_id FWK_ID_NONE).
MpllElementTables ==
    {(MPLL_CLOCK_IDX_MAIN :> MpllConfig(w0, t0))
         @@ (MPLL_CLOCK_IDX_SECONDARY :> MpllConfig(w1, t1)) :
        w0 \in {MOD_MPLL_CLOCK_REG_WIDTH_8BIT, MOD_MPLL_CLOCK_REG_WIDTH_32BIT},
        w1 \in {MOD_MPLL_CLOCK_REG_WIDTH_8BIT, MOD_MPLL_CLOCK_REG_WIDTH_32BIT},
        t0 \in {TIMER_ID, FWK_ID_NONE}, t1 \in {TIMER_ID, FWK_ID_NONE}}

InitMpll ==
    /\ SensorInitWith(sensor_manager_config)
    /\ \E elements \in MpllElementTables : MpllInitWith(elements)

\* The frequency configurations the callers pass to setmpll.
FreqConfig(multiplier, divider, post_divider) ==
    [frequency |-> U64Div(U64Mul(U64(24000000), multiplier),
                          divider * post_divider),
     multiplier |-> multiplier, divider |-> divider,
     post_divider |-> post_divider]

SetInputs == {FreqConfig(2, 1, 1), FreqConfig(50, 2, 3), NULL_PARAMS}

\* Starts of the devices and calls of setmpll, after each of which the PLL
\* locks within the timeout or does not.
SetStart == \E dev_id \in MpllDevices : mpll_clock_start(dev_id)
SetMpll ==
    \E dev_id \in MpllDevices \cup {MPLL_CLOCK_IDX_COUNT},
       freq_config \in SetInputs, locked \in BOOLEAN :
        mpll_clock_setmpll(dev_id, freq_config, locked)
NextMpllSet == SetStart \/ SetMpll

SpecMpllSet == InitMpll /\ [][NextMpllSet]_vars

\* The uint32_t whose bytes are b0 (lowest) to b3.
Word(b0, b1, b2, b3) ==
    ToBits(b0) \cup ShiftLeft(ToBits(b1), 8) \cup ShiftLeft(ToBits(b2), 16)
    \cup ShiftLeft(ToBits(b3), 24)

\* The reg_params of the calls of write_reg and read_reg: byte and word
\* accesses to the frequency register and a byte access to its second
\* byte, with full and partial masks, a mask wider than a byte, and a width
\* that is none.
RegValues == {Word(0, 0, 0, 0), Word(255, 255, 255, 255),
              Word(165, 90, 60, 195)}
RegMasks == {Uint32Bits, ToBits(255), ToBits(15), Word(0, 255, 0, 240)}
RegInputs ==
    {[offset |-> o, width |-> w, value |-> v, mask |-> m] :
        o \in {MPLL_FREQ_REG_OFFSET},
        w \in {MOD_MPLL_CLOCK_REG_WIDTH_8BIT, MOD_MPLL_CLOCK_REG_WIDTH_32BIT},
        v \in RegValues, m \in RegMasks}
    \cup {[offset |-> MPLL_FREQ_REG_OFFSET + 1,
           width |-> MOD_MPLL_CLOCK_REG_WIDTH_8BIT,
           value |-> Word(165, 90, 60, 195), mask |-> ToBits(15)],
          [offset |-> MPLL_FREQ_REG_OFFSET,
           width |-> MOD_MPLL_CLOCK_REG_WIDTH_COUNT,
           value |-> Word(255, 255, 255, 255), mask |-> Uint32Bits],
          NULL_PARAMS}

RegStart == mpll_clock_start(MPLL_CLOCK_IDX_MAIN)
RegWrite ==
    \E dev_id \in {MPLL_CLOCK_IDX_MAIN, MPLL_CLOCK_IDX_COUNT},
       reg_params \in RegInputs :
        mpll_clock_write_reg(dev_id, reg_params)
\* The reg_params of the reads: every offset and width of RegInputs once
\* (read_reg ignores value and mask).
RegReadInputs ==
    {p \in RegInputs :
        IF p = NULL_PARAMS THEN TRUE
        ELSE \/ p.value = Word(0, 0, 0, 0) /\ p.mask = Uint32Bits
             \/ p.offset # MPLL_FREQ_REG_OFFSET
             \/ p.width = MOD_MPLL_CLOCK_REG_WIDTH_COUNT}

RegRead ==
    \E dev_id \in {MPLL_CLOCK_IDX_MAIN, MPLL_CLOCK_IDX_COUNT},
       reg_params \in RegReadInputs, value \in {"&value", NULL} :
        mpll_clock_read_reg(dev_id, reg_params, value)
NextMpllReg == RegStart \/ RegWrite \/ RegRead

SpecMpllReg == Init /\ [][NextMpllReg]_vars

\* The life of the two devices of the example configuration: each is
\* started at some moment, and setmpll, getmpll, read_reg and write_reg are
\* called on each with valid arguments before and after that.
LifeFreqs == {FreqConfig(50, 2, 3)}
LifeRegInputs ==
    {[offset |-> MPLL_FREQ_REG_OFFSET, width |-> w, value |-> v,
      mask |-> Uint32Bits] :
        w \in {MOD_MPLL_CLOCK_REG_WIDTH_8BIT, MOD_MPLL_CLOCK_REG_WIDTH_32BIT},
        v \in {Word(165, 90, 60, 195)}}

LifeStart == \E dev_id \in MpllDevices : mpll_clock_start(dev_id)
LifeSet ==
    \E dev_id \in MpllDevices, freq_config \in LifeFreqs,
       locked \in BOOLEAN :
        mpll_clock_setmpll(dev_id, freq_config, locked)
LifeGet ==
    \E dev_id \in MpllDevices :
        mpll_clock_getmpll(dev_id, calloc_freq_config)
LifeRead ==
    \E dev_id \in MpllDevices, reg_params \in LifeRegInputs :
        mpll_clock_read_reg(dev_id, reg_params, "&value")
LifeWrite ==
    \E dev_id \in MpllDevices, reg_params \in LifeRegInputs :
        mpll_clock_write_reg(dev_id, reg_params)
NextLife == LifeStart \/ LifeSet \/ LifeGet \/ LifeRead \/ LifeWrite

SpecLife == Init /\ [][NextLife]_vars

\* setmpll and getmpll on the two devices of the example configuration,
\* the main one accessed by words and the secondary one by bytes, with
\* multipliers, dividers and post-dividers from both ends of 1..255.
RoundFreqs ==
    {FreqConfig(1, 1, 1), FreqConfig(50, 2, 3), FreqConfig(255, 1, 1),
     FreqConfig(255, 255, 255)}

RoundStart == \E dev_id \in MpllDevices : mpll_clock_start(dev_id)
RoundSet ==
    \E dev_id \in MpllDevices, freq_config \in RoundFreqs,
       locked \in BOOLEAN :
        mpll_clock_setmpll(dev_id, freq_config, locked)
RoundGet ==
    \E dev_id \in MpllDevices :
        mpll_clock_getmpll(dev_id, calloc_freq_config)
NextRound == RoundStart \/ RoundSet \/ RoundGet

SpecRound == Init /\ [][NextRound]_vars

\* Foreground calls preempted by the handler: two modules, each with its
\* own callback, register on and unregister from detector 1 of the
\* temperature sensor and the temperature wildcard, one access at a time,
\* and detector 1 interrupts between any two accesses.
PreemptCalls ==
    {<<SENSOR_TYPE_TEMPERATURE, 1, "cbA", "M1">>,
     <<SENSOR_TYPE_TEMPERATURE, 1, "cbB", "M2">>,
     <<SENSOR_TYPE_TEMPERATURE, UINT_MAX, "cbA", "M1">>}

PreemptRegister ==
    \E c \in PreemptCalls : fg_register_notification(c[1], c[2], c[3], c[4])
PreemptUnregister ==
    \E c \in PreemptCalls : fg_unregister_notification(c[1], c[2], c[4])
PreemptStep == fg_step
PreemptInterrupt == Interrupt({33}, {50, 95}, 0)
NextPreempt ==
    PreemptRegister \/ PreemptUnregister \/ PreemptStep \/ PreemptInterrupt

SpecPreempt == Init /\ [][NextPreempt]_vars

\* Dispatches whose callbacks call the API: on detector 1 of the
\* temperature sensor, M1 subscribes with a callback that unregisters M2,
\* or one that registers M3 on the same table or on the wildcard table; M2
\* and M3 subscribe with callbacks that call nothing.
ReentrantCalls ==
    {<<SENSOR_TYPE_TEMPERATURE, 1, "cbUnregisterM2", "M1">>,
     <<SENSOR_TYPE_TEMPERATURE, 1, "cbRegisterM3", "M1">>,
     <<SENSOR_TYPE_TEMPERATURE, 1, "cbWildcardM3", "M1">>,
     <<SENSOR_TYPE_TEMPERATURE, 1, "cbB", "M2">>,
     <<SENSOR_TYPE_TEMPERATURE, UINT_MAX, "cbB", "M2">>}

ReentrantRegister == Register(ReentrantCalls)
ReentrantUnregister ==
    Unregister({<<c[1], c[2], c[4]>> : c \in ReentrantCalls}
               \cup {<<SENSOR_TYPE_TEMPERATURE, 1, "M3">>,
                     <<SENSOR_TYPE_TEMPERATURE, UINT_MAX, "M3">>})
ReentrantInterrupt ==
    \E value \in {50, 95} : sensor_interrupt_handler_live(33, value)
NextReentrant ==
    ReentrantRegister \/ ReentrantUnregister \/ ReentrantInterrupt

SpecReentrant == Init /\ [][NextReentrant]_vars

\* A foreground register on detector 1 of the temperature sensor, one
\* access at a time, preempted by dispatches whose callbacks
\* register on the same table: M1 subscribes with a callback that registers
\* M2 or M3 there, and the foreground registers M2 itself.
RaceCalls ==
    {<<SENSOR_TYPE_TEMPERATURE, 1, "cbRegisterM2", "M1">>,
     <<SENSOR_TYPE_TEMPERATURE, 1, "cbRegisterM3", "M1">>,
     <<SENSOR_TYPE_TEMPERATURE, 1, "cbB", "M2">>}

RaceRegister ==
    \E c \in RaceCalls : fg_register_notification(c[1], c[2], c[3], c[4])
RaceStep == fg_step
RaceInterrupt ==
    \E value \in {50, 95} : sensor_interrupt_handler_live(33, value)
NextRace == RaceRegister \/ RaceStep \/ RaceInterrupt

SpecRace == Init /\ [][NextRace]_vars

\* Interrupt lines shared within a type and across types: the first two
\* temperature detectors and the first voltage detector take their lines
\* from {32, 33} in every way, the first of them enabled or not; a module
\* subscribes to the wildcard tables of both types.
LineConfigs ==
    {[sensor_manager_config EXCEPT
         !.temp_detectors[0] = DetectorConfig(0, l0, e0, 10, 85, TRUE),
         !.temp_detectors[1] = DetectorConfig(1, l1, TRUE, 15, 90, TRUE),
         !.voltage_detectors[0] =
             DetectorConfig(2, l2, TRUE, 3000, 3600, TRUE)] :
        l0 \in {32, 33}, l1 \in {32, 33}, l2 \in {32, 33}, e0 \in BOOLEAN}

InitLines == \E cfg \in LineConfigs : InitWith(cfg)

LinesRegister ==
    Register({<<SENSOR_TYPE_TEMPERATURE, UINT_MAX, "cbA", "M1">>,
              <<SENSOR_TYPE_VOLTAGE, UINT_MAX, "cbA", "M1">>})
LinesInterrupt == Interrupt({32, 33}, {50, 95}, 0)
LinesUnknownInterrupt == UnknownInterrupt({99}, 0)
NextLines == LinesRegister \/ LinesInterrupt \/ LinesUnknownInterrupt

SpecLines == InitLines /\ [][NextLines]_vars

\* Registrations on disabled detectors: under the example configuration,
\* whose disabled frequency detector 1 has a line of its own, and under the
\* configuration whose disabled temperature detector 0 shares line 32, a
\* module registers on and unregisters from both, as the example client
\* does on frequency detector 1, and the bound lines interrupt.
InitDisabled ==
    \E cfg \in {sensor_manager_config, shared_line_config} : InitWith(cfg)

DisabledCalls ==
    {<<SENSOR_TYPE_FREQUENCY, 1, "cbA", "M1">>,
     <<SENSOR_TYPE_TEMPERATURE, 0, "cbA", "M1">>,
     <<SENSOR_TYPE_TEMPERATURE, 0, "cbB", "M2">>,
     <<SENSOR_TYPE_TEMPERATURE, 0, NULL, "M3">>}

DisabledRegister == Register(DisabledCalls)
DisabledUnregister == Unregister({<<c[1], c[2], c[4]>> : c \in DisabledCalls})
DisabledInterrupt == Interrupt({32, 36, 37}, {50, 95}, 0)
NextDisabled == DisabledRegister \/ DisabledUnregister \/ DisabledInterrupt

SpecDisabled == InitDisabled /\ [][NextDisabled]_vars

\* Foreground calls of register_notification and unregister_notification,
\* one access at a time, under dispatches whose callbacks unregister and
\* register on the table the dispatch walks: the callback of M1 unregisters
\* M2 and the callback of M2 registers M3.
TermCalls ==
    {<<SENSOR_TYPE_TEMPERATURE, 1, "cbUnregisterM2", "M1">>,
     <<SENSOR_TYPE_TEMPERATURE, 1, "cbRegisterM3", "M2">>}

\* Preempted updates let the active count drift without bound; foreground
\* calls start while it is within the capacity of the table.
TermCountInRange ==
    TableOf(sensors, SENSOR_TYPE_TEMPERATURE, 1).count
        \in 0 .. config.max_registrations_per_detector

TermRegister ==
    /\ TermCountInRange
    /\ \E c \in TermCalls : fg_register_notification(c[1], c[2], c[3], c[4])
TermUnregister ==
    /\ TermCountInRange
    /\ \E c \in {<<SENSOR_TYPE_TEMPERATURE, 1, "M3">>} :
           fg_unregister_notification(c[1], c[2], c[3])
TermStep == fg_step
TermInterrupt ==
    \E value \in {50, 95} : sensor_interrupt_handler_live(33, value)
NextTerm == TermRegister \/ TermUnregister \/ TermStep \/ TermInterrupt

SpecTerm == Init /\ [][NextTerm]_vars

(***************************************************************************)
(* Reading the state, for the properties below.                            *)
(***************************************************************************)
\* The tables, named as the API addresses them: <<type, d>> is the table of
\* detector d, <<type, UINT_MAX>> the global table of the type.
Tables == Types \X (Dets \cup {UINT_MAX})

SlotsOf(s, tb) ==
    IF tb[2] = UINT_MAX
    THEN s[tb[1]].global_registrations
    ELSE s[tb[1]].detectors[tb[2]].registrations

CountOf(s, tb) ==
    IF tb[2] = UINT_MAX
    THEN s[tb[1]].global_active_count
    ELSE s[tb[1]].detectors[tb[2]].active_count

CapacityOf(tb) == config.max_registrations_per_detector

ActiveSlots(s, tb) == {i \in DOMAIN SlotsOf(s, tb) : SlotsOf(s, tb)[i].active}

\* requester holds an active slot of table tb.
Holds(s, tb, requester) ==
    \E i \in ActiveSlots(s, tb) : SlotsOf(s, tb)[i].requester_id = requester

\* The threshold test of the design: low <= value <= high.
InBand(value, dcfg) ==
    dcfg.threshold_low <= value /\ value <= dcfg.threshold_high

(***************************************************************************)
(* C1.  Edge-trigger law: for an enabled detector with thresholds enabled, *)
(* a sample is dispatched exactly when its in-range status differs from    *)
(* that of the detector's previous sample (in range before the first       *)
(* sample); the dispatch is Exceeded when the sample is out of range and   *)
(* Normal when it is back in range.  Stated over the history of handler    *)
(* runs: the status before run i is that of the latest earlier run of the  *)
(* same detector, or in range when the history is complete and has none.   *)
(***************************************************************************)
PreviousRuns(i) ==
    {j \in 1 .. (i - 1) : /\ hist[j].type = hist[i].type
                          /\ hist[j].detector_id = hist[i].detector_id}

EdgeLawAt(i) ==
    LET run == hist[i]
        dcfg == ConfigOf(config, run.type, run.detector_id)
        before == PreviousRuns(i)
        latest == CHOOSE j \in before : \A k \in before : k <= j
        now == InBand(run.value, dcfg)
    IN  (dcfg.enabled /\ dcfg.threshold_enabled
         /\ (before # {} \/ Len(hist) < MaxHist))
        => LET was == IF before = {} THEN TRUE
                      ELSE InBand(hist[latest].value, dcfg)
           IN  /\ run.notified <=> (now # was)
               /\ run.notified =>
                      run.interrupt_type =
                          IF now THEN SENSOR_INTERRUPT_THRESHOLD_NORMAL
                          ELSE SENSOR_INTERRUPT_THRESHOLD_EXCEEDED

EdgeTriggerLaw ==
    \A i \in 1 .. Len(hist) : hist[i].type # -1 => EdgeLawAt(i)

\* The scenario of the design: low 10, high 85, samples 50, 95, 96, 40 give
\* nothing, Exceeded, nothing, Normal; the subscriber is called for the last.
EdgeScenario ==
    /\ Len(hist) = 4
    /\ \A i \in 1 .. 4 : hist[i].type = SENSOR_TYPE_TEMPERATURE
                          /\ hist[i].detector_id = 0
    /\ <<hist[1].value, hist[2].value, hist[3].value, hist[4].value>>
           = <<50, 95, 96, 40>>
    /\ <<hist[1].notified, hist[2].notified, hist[3].notified,
          hist[4].notified>> = <<FALSE, TRUE, FALSE, TRUE>>
    /\ hist[2].interrupt_type = SENSOR_INTERRUPT_THRESHOLD_EXCEEDED
    /\ hist[4].interrupt_type = SENSOR_INTERRUPT_THRESHOLD_NORMAL
    /\ Len(calls) = 1
    /\ calls[1].interrupt_type = SENSOR_INTERRUPT_THRESHOLD_NORMAL
    /\ calls[1].value = 40

(***************************************************************************)
(* C2.  Dispatch completeness: a dispatch for (type, detector) invokes,    *)
(* once each, exactly the registrations active in the table of that        *)
(* detector and in the global table of that type, each with the callback   *)
(* and the requester of its slot; it invokes no registration of another    *)
(* detector's table or of a table of another type; a handler run that does *)
(* not dispatch invokes nothing.                                           *)
(***************************************************************************)
\* The registrations a dispatch for (type, detector_id) must reach.
Addressed(type, detector_id) ==
    {<<tb, i>> \in {<<type, detector_id>>, <<type, UINT_MAX>>}
                   \X (0 .. (CapacityOf(<<type, UINT_MAX>>) - 1)) :
        i \in ActiveSlots(sensors, tb)}

DispatchComplete ==
    last.op = "irq" =>
        IF last.notified
        THEN /\ {<<calls[k].scope, calls[k].slot>> : k \in 1 .. Len(calls)}
                    = Addressed(last.type, last.detector_id)
             /\ Len(calls) =
                    Cardinality(Addressed(last.type, last.detector_id))
             /\ \A k \in 1 .. Len(calls) :
                    LET reg == SlotsOf(sensors, calls[k].scope)[calls[k].slot]
                    IN  /\ calls[k].callback = reg.callback
                        /\ calls[k].source_id = reg.requester_id
        ELSE calls = << >>

\* A dispatch for detector 1 of the temperature sensor reaches the two
\* registrations of its table and the one of the temperature wildcard,
\* while detector 0 and the voltage wildcard hold registrations it leaves
\* alone.
DispatchReachesBothScopes ==
    /\ last.op = "irq" /\ last.notified
    /\ last.type = SENSOR_TYPE_TEMPERATURE /\ last.detector_id = 1
    /\ Len(calls) = 3
    /\ Cardinality(ActiveSlots(sensors, <<SENSOR_TYPE_TEMPERATURE, 1>>)) = 2
    /\ Holds(sensors, <<SENSOR_TYPE_TEMPERATURE, UINT_MAX>>, "M1")
    /\ Holds(sensors, <<SENSOR_TYPE_TEMPERATURE, 0>>, "M1")
    /\ Holds(sensors, <<SENSOR_TYPE_VOLTAGE, UINT_MAX>>, "M2")

(***************************************************************************)
(* C3.  Uniqueness: every table (each detector's, each type's global one)  *)
(* holds at most one active slot per requester.                            *)
(***************************************************************************)
UniqueRequesters ==
    \A tb \in Tables :
        \A i, j \in ActiveSlots(sensors, tb) :
            SlotsOf(sensors, tb)[i].requester_id
                = SlotsOf(sensors, tb)[j].requester_id => i = j

\* A table with two active slots, of two requesters, right after a
\* duplicate register on it was turned down.
DuplicateTurnedDown ==
    /\ last.op = "register" /\ last.ret = FWK_E_STATE
    /\ Cardinality(ActiveSlots(sensors, <<last.type, last.detector_id>>)) = 2

(***************************************************************************)
(* C4.  A register_notification whose requester already holds an active    *)
(* slot of the addressed table returns FWK_E_STATE, whatever callback it   *)
(* passes and whether or not the table has a free slot, and changes no     *)
(* slot and no count.                                                      *)
(***************************************************************************)
\* The arguments of the operation recorded in l pass the parameter checks
\* the design gives for register_notification.
ValidRegister(l) ==
    /\ l.type \in Types
    /\ l.callback # NULL
    /\ l.detector_id = UINT_MAX \/ l.detector_id \in Dets

DuplicateRegisterRejected ==
    [][(/\ last'.op = "register"
        /\ ValidRegister(last')
        /\ Holds(sensors, <<last'.type, last'.detector_id>>,
                 last'.requester_id))
       => (last'.ret = FWK_E_STATE /\ last'.slot = -1 /\ sensors' = sensors)
      ]_vars

\* A duplicate register that passes another callback than the one the
\* requester's slot holds, on a table that has a free slot.
DuplicateOtherCallback ==
    /\ last.op = "register" /\ last.ret = FWK_E_STATE
    /\ LET tb == <<last.type, last.detector_id>>
       IN  /\ \E i \in ActiveSlots(sensors, tb) :
                  /\ SlotsOf(sensors, tb)[i].requester_id = last.requester_id
                  /\ SlotsOf(sensors, tb)[i].callback # last.callback
           /\ Cardinality(ActiveSlots(sensors, tb)) < CapacityOf(tb)

(***************************************************************************)
(* C5.  Scope independence: a register by a requester that holds no slot   *)
(* of the addressed table never returns FWK_E_STATE, whatever the          *)
(* requester holds in the other scope or on another detector; a dispatch   *)
(* for a detector calls the requester's direct registration on it and the  *)
(* requester's wildcard one, each from its own table; a successful         *)
(* unregister changes nothing outside the addressed table and, in it, only *)
(* the requester's own slot, so the registration in the other scope stays  *)
(* active and is fired by the later dispatches.                            *)
(***************************************************************************)
ValidUnregister(l) ==
    /\ l.type \in Types
    /\ l.detector_id = UINT_MAX \/ l.detector_id \in Dets

RegisterIgnoresOtherScope ==
    (/\ last'.op = "register"
     /\ ValidRegister(last')
     /\ ~Holds(sensors, <<last'.type, last'.detector_id>>,
               last'.requester_id))
    => last'.ret # FWK_E_STATE

UnregisterTouchesOneSlot ==
    (last'.op = "unregister" /\ last'.ret = FWK_SUCCESS)
    => LET tb == <<last'.type, last'.detector_id>>
       IN  /\ \A other \in Tables \ {tb} :
                  /\ SlotsOf(sensors', other) = SlotsOf(sensors, other)
                  /\ CountOf(sensors', other) = CountOf(sensors, other)
           /\ \A i \in DOMAIN SlotsOf(sensors, tb) :
                  SlotsOf(sensors', tb)[i] # SlotsOf(sensors, tb)[i]
                  => /\ SlotsOf(sensors, tb)[i].active
                     /\ SlotsOf(sensors, tb)[i].requester_id
                            = last'.requester_id
           /\ ~Holds(sensors', tb, last'.requester_id)

DispatchFiresEachScope ==
    (last'.op = "irq" /\ last'.notified)
    => \A tb \in {<<last'.type, last'.detector_id>>,
                  <<last'.type, UINT_MAX>>} :
           \A i \in ActiveSlots(sensors, tb) :
               \E k \in 1 .. Len(calls') :
                   /\ calls'[k].scope = tb
                   /\ calls'[k].source_id = SlotsOf(sensors, tb)[i].requester_id
                   /\ calls'[k].callback = SlotsOf(sensors, tb)[i].callback

ScopeIndependence ==
    [][/\ RegisterIgnoresOtherScope
       /\ UnregisterTouchesOneSlot
       /\ DispatchFiresEachScope]_vars

\* Module M1 registered the temperature wildcard and detector 1 of the
\* temperature sensor, then unregistered the wildcard (its slot is cleared);
\* a later transition of detector 1 still calls its direct registration, and
\* no wildcard one.
DirectSurvivesWildcardUnregister ==
    /\ last.op = "irq" /\ last.notified
    /\ last.type = SENSOR_TYPE_TEMPERATURE /\ last.detector_id = 1
    /\ Holds(sensors, <<SENSOR_TYPE_TEMPERATURE, 1>>, "M1")
    /\ sensors[SENSOR_TYPE_TEMPERATURE].global_registrations[0].requester_id
           = FWK_ID_NONE
    /\ ActiveSlots(sensors, <<SENSOR_TYPE_TEMPERATURE, UINT_MAX>>) = {}
    /\ \E k \in 1 .. Len(calls) :
           /\ calls[k].source_id = "M1"
           /\ calls[k].scope = <<SENSOR_TYPE_TEMPERATURE, 1>>
    /\ \A k \in 1 .. Len(calls) :
           calls[k].scope # <<SENSOR_TYPE_TEMPERATURE, UINT_MAX>>

(***************************************************************************)
(* C6.  Capacity law: a register by a requester that holds no slot of the  *)
(* addressed table returns FWK_E_NOMEM and changes nothing when all the    *)
(* slots of the table are active, and succeeds when one is inactive; a     *)
(* successful unregister leaves an inactive slot in the table, so the      *)
(* register that follows it succeeds.                                      *)
(***************************************************************************)
IsFull(s, tb) == Cardinality(ActiveSlots(s, tb)) = CapacityOf(tb)

CapacityLaw ==
    [][/\ (/\ last'.op = "register"
           /\ ValidRegister(last')
           /\ ~Holds(sensors, <<last'.type, last'.detector_id>>,
                     last'.requester_id))
          => LET tb == <<last'.type, last'.detector_id>>
             IN  IF IsFull(sensors, tb)
                 THEN last'.ret = FWK_E_NOMEM /\ sensors' = sensors
                 ELSE /\ last'.ret = FWK_SUCCESS
                      /\ Holds(sensors', tb, last'.requester_id)
       /\ (last'.op = "unregister" /\ last'.ret = FWK_SUCCESS)
          => ~IsFull(sensors', <<last'.type, last'.detector_id>>)
      ]_vars

\* A register that succeeds into slot 0 of a table whose other slot is
\* active: the table had been filled, slot 0 was freed by an unregister and
\* is reused.
FreedSlotReused ==
    /\ last.op = "register" /\ last.ret = FWK_SUCCESS /\ last.slot = 0
    /\ IsFull(sensors, <<last.type, last.detector_id>>)
    /\ CapacityOf(<<last.type, last.detector_id>>) > 1

(***************************************************************************)
(* C7.  Occupancy: every table has exactly capacity slots, at most         *)
(* capacity of them active, an active count between 0 and the capacity,    *)
(* and no operation writes a slot at or beyond the capacity.               *)
(***************************************************************************)
Occupancy ==
    /\ \A tb \in Tables :
           /\ DOMAIN SlotsOf(sensors, tb) = 0 .. (CapacityOf(tb) - 1)
           /\ Cardinality(ActiveSlots(sensors, tb)) <= CapacityOf(tb)
           /\ CountOf(sensors, tb) >= 0
           /\ CountOf(sensors, tb) <= CapacityOf(tb)
    /\ last.slot < config.max_registrations_per_detector

\* An overflow that failed cleanly: a register turned down for lack of
\* slots, on the global table, while the table of detector 0 is full too.
OverflowTurnedDown ==
    /\ last.op = "register" /\ last.ret = FWK_E_NOMEM
    /\ last.detector_id = UINT_MAX
    /\ IsFull(sensors, <<last.type, UINT_MAX>>)
    /\ CountOf(sensors, <<last.type, UINT_MAX>>)
           = config.max_registrations_per_detector
    /\ IsFull(sensors, <<last.type, 0>>)

(***************************************************************************)
(* C8.  An unregister, with a valid type and detector id, by a requester   *)
(* that holds no active slot of the addressed table returns FWK_E_ACCESS   *)
(* and changes nothing, whatever the requester holds in the other scope or *)
(* on another detector.                                                    *)
(***************************************************************************)
UnregisterAbsentRejected ==
    [][(/\ last'.op = "unregister"
        /\ ValidUnregister(last')
        /\ ~Holds(sensors, <<last'.type, last'.detector_id>>,
                  last'.requester_id))
       => /\ last'.ret = FWK_E_ACCESS
          /\ last'.slot = -1
          /\ sensors' = sensors
      ]_vars

\* Module M1 holds the temperature wildcard and detector 1 of the
\* temperature sensor, and its unregister from detector 0 is turned down.
AbsentHereActiveElsewhere ==
    /\ last.op = "unregister" /\ last.ret = FWK_E_ACCESS
    /\ last.type = SENSOR_TYPE_TEMPERATURE /\ last.detector_id = 0
    /\ last.requester_id = "M1"
    /\ Holds(sensors, <<SENSOR_TYPE_TEMPERATURE, 1>>, "M1")
    /\ Holds(sensors, <<SENSOR_TYPE_TEMPERATURE, UINT_MAX>>, "M1")

(***************************************************************************)
(* C9.  Parameter validation comes first: a register with a type out of    *)
(* range, a null callback or a detector id that is neither the wildcard    *)
(* nor in range, and an unregister with a type or such a detector id out   *)
(* of range, return FWK_E_PARAM and change no table, count or detector     *)
(* state, whatever the state of the tables.                                *)
(***************************************************************************)
ParameterValidation ==
    [][(\/ last'.op = "register" /\ ~ValidRegister(last')
        \/ last'.op = "unregister" /\ ~ValidUnregister(last'))
       => /\ last'.ret = FWK_E_PARAM
          /\ last'.slot = -1
          /\ sensors' = sensors
      ]_vars

\* A register with a null callback turned down for its parameters although
\* its requester is already registered in the addressed table and the table
\* is full.
ParameterErrorTakesPrecedence ==
    /\ last.op = "register" /\ last.ret = FWK_E_PARAM
    /\ last.callback = NULL
    /\ last.type \in Types /\ last.detector_id \in Dets
    /\ Holds(sensors, <<last.type, last.detector_id>>, last.requester_id)
    /\ IsFull(sensors, <<last.type, last.detector_id>>)

(***************************************************************************)
(* C10.  get_sensor_value on a detector the configuration disables, with a *)
(* valid type and detector id, does not write the caller's variable and,   *)
(* given a non-null pointer, returns FWK_E_DEVICE, whatever value the      *)
(* detector context caches.                                                *)
(***************************************************************************)
DisabledReadFails ==
    [][(/\ last'.op = "get"
        /\ last'.type \in Types /\ last'.detector_id \in Dets
        /\ ~ConfigOf(config, last'.type, last'.detector_id).enabled)
       => /\ out' = out
          /\ last'.callback # NULL => last'.ret = FWK_E_DEVICE
      ]_vars

\* The disabled detector 0 of the temperature sensor, sampled through the
\* interrupt line it shares, caches a value; a read of it fails and the
\* caller's variable keeps another value.
DisabledReadKeepsOutput ==
    /\ last.op = "get" /\ last.ret = FWK_E_DEVICE
    /\ last.type = SENSOR_TYPE_TEMPERATURE /\ last.detector_id = 0
    /\ ~ConfigOf(config, SENSOR_TYPE_TEMPERATURE, 0).enabled
    /\ sensors[SENSOR_TYPE_TEMPERATURE].detectors[0].current_value # 0
    /\ out # 0
    /\ out # sensors[SENSOR_TYPE_TEMPERATURE].detectors[0].current_value

(***************************************************************************)
(* C11.  get_sensor_value on an enabled detector, with a valid type, a     *)
(* detector id below the detector count and a non-null pointer, returns    *)
(* FWK_SUCCESS and writes the value read by the latest handler run of that *)
(* detector, zero when the handler never ran for it; with a type or a      *)
(* detector id out of range (the wildcard included) or a null pointer it   *)
(* returns FWK_E_PARAM and writes nothing; in every case it leaves the     *)
(* sensor contexts as they were.                                           *)
(***************************************************************************)
\* The handler runs in the history that sampled detector td.
RunsOf(td) ==
    {j \in 1 .. Len(hist) : hist[j].type = td[1]
                            /\ hist[j].detector_id = td[2]}

\* The value the latest handler run of td read is known when td was never
\* sampled and when the history still holds a run of td.
LatestKnown(td) == td \notin sampled \/ RunsOf(td) # {}

LatestSample(td) ==
    IF td \notin sampled
    THEN 0
    ELSE hist[CHOOSE j \in RunsOf(td) : \A k \in RunsOf(td) : k <= j].value

ReadReturnsLatestSample ==
    [][last'.op = "get" =>
        /\ sensors' = sensors
        /\ IF /\ last'.type \in Types
              /\ last'.detector_id \in Dets
              /\ last'.callback # NULL
           THEN LET td == <<last'.type, last'.detector_id>>
                IN  ConfigOf(config, td[1], td[2]).enabled =>
                        /\ last'.ret = FWK_SUCCESS
                        /\ LatestKnown(td) => out' = LatestSample(td)
           ELSE last'.ret = FWK_E_PARAM /\ out' = out
      ]_vars

\* Detector 0 of the temperature sensor read 50 and then 95, detector 1
\* read 50 after that, and a read of detector 0 gives 95.
ReadAfterSamples ==
    /\ last.op = "get" /\ last.ret = FWK_SUCCESS
    /\ last.type = SENSOR_TYPE_TEMPERATURE /\ last.detector_id = 0
    /\ Len(hist) >= 3
    /\ hist[Len(hist)].detector_id = 1 /\ hist[Len(hist)].value = 50
    /\ hist[Len(hist) - 1].detector_id = 0 /\ hist[Len(hist) - 1].value = 95
    /\ hist[Len(hist) - 2].detector_id = 0 /\ hist[Len(hist) - 2].value = 50
    /\ out = 95

(***************************************************************************)
(* C12.  A disabled detector never samples or notifies: the current value, *)
(* the previous value and the in-range flag of a detector the              *)
(* configuration disables stay what sensor_manager_init made them, and no  *)
(* callback is invoked with its type and detector id, whatever line        *)
(* interrupts, a line it shares with an enabled detector included.         *)
(***************************************************************************)
DisabledDetectorUntouched ==
    \A td \in Types \X Dets :
        ~ConfigOf(config, td[1], td[2]).enabled =>
            /\ sensors[td[1]].detectors[td[2]].current_value = 0
            /\ sensors[td[1]].detectors[td[2]].previous_value = 0
            /\ sensors[td[1]].detectors[td[2]].is_in_normal_range = TRUE
            /\ td \notin sampled
            /\ \A k \in 1 .. Len(calls) :
                   <<calls[k].type, calls[k].detector_id>> # td

(***************************************************************************)
(* C13.  Threshold evaluator: for every value and every configuration the  *)
(* evaluator answers in range when thresholds are disabled, and otherwise  *)
(* exactly when low <= value <= high, both ends included; with low above   *)
(* high no value is in range.  Stated on the flag the handler stores from  *)
(* the evaluator's answer for the value it read.                           *)
(***************************************************************************)
ThresholdEvaluator ==
    (last.op = "irq" /\ last.found) =>
        LET dcfg == ConfigOf(config, last.type, last.detector_id)
            answer ==
                sensors[last.type].detectors[last.detector_id]
                    .is_in_normal_range
        IN  /\ ~dcfg.threshold_enabled => answer = TRUE
            /\ dcfg.threshold_enabled =>
                   answer = (dcfg.threshold_low <= last.value
                             /\ last.value <= dcfg.threshold_high)
            /\ (dcfg.threshold_enabled
                /\ dcfg.threshold_low > dcfg.threshold_high) => answer = FALSE

\* A sample equal to the high threshold, above the low one, is in range.
SampleOnHighThreshold ==
    /\ last.op = "irq" /\ last.found
    /\ ConfigOf(config, last.type, last.detector_id).threshold_enabled
    /\ ConfigOf(config, last.type, last.detector_id).threshold_low
           < ConfigOf(config, last.type, last.detector_id).threshold_high
    /\ last.value = ConfigOf(config, last.type, last.detector_id).threshold_high
    /\ sensors[last.type].detectors[last.detector_id].is_in_normal_range

(***************************************************************************)
(* C14.  In-range flag invariant.  As claimed: in every reachable state    *)
(* the flag of a detector with thresholds enabled equals the threshold     *)
(* test on its current value, and the flag of a detector with thresholds   *)
(* disabled is true (InRangeFlagTracksValue).  As it holds: the same for   *)
(* every detector the handler has sampled; a detector not yet sampled has  *)
(* current value zero and its flag true, whatever the test says of zero    *)
(* (InRangeFlagTracksSample).                                              *)
(***************************************************************************)
InRangeFlagTracksValue ==
    \A td \in Types \X Dets :
        LET dcfg == ConfigOf(config, td[1], td[2])
            detector_ctx == sensors[td[1]].detectors[td[2]]
        IN  IF dcfg.threshold_enabled
            THEN detector_ctx.is_in_normal_range
                     = InBand(detector_ctx.current_value, dcfg)
            ELSE detector_ctx.is_in_normal_range = TRUE

InRangeFlagTracksSample ==
    \A td \in Types \X Dets :
        LET dcfg == ConfigOf(config, td[1], td[2])
            detector_ctx == sensors[td[1]].detectors[td[2]]
        IN  /\ ~dcfg.threshold_enabled =>
                   detector_ctx.is_in_normal_range = TRUE
            /\ (dcfg.threshold_enabled /\ td \in sampled) =>
                   detector_ctx.is_in_normal_range
                       = InBand(detector_ctx.current_value, dcfg)
            /\ td \notin sampled =>
                   /\ detector_ctx.is_in_normal_range = TRUE
                   /\ detector_ctx.current_value = 0

\* A detector whose latest sample is above its high threshold keeps a false
\* flag through a later register call, next to detectors never sampled.
FlagFalseAfterHighSample ==
    /\ last.op = "register"
    /\ <<SENSOR_TYPE_TEMPERATURE, 0>> \in sampled
    /\ ConfigOf(config, SENSOR_TYPE_TEMPERATURE, 0).threshold_enabled
    /\ sensors[SENSOR_TYPE_TEMPERATURE].detectors[0].current_value
           > ConfigOf(config, SENSOR_TYPE_TEMPERATURE, 0).threshold_high
    /\ ~sensors[SENSOR_TYPE_TEMPERATURE].detectors[0].is_in_normal_range

(***************************************************************************)
(* C15.  For an enabled detector with thresholds disabled every handler    *)
(* run dispatches, whatever the value and the value before it; the         *)
(* dispatch and every callback it invokes carry                            *)
(* SENSOR_INTERRUPT_THRESHOLD_NORMAL, never                                *)
(* SENSOR_INTERRUPT_THRESHOLD_EXCEEDED.                                    *)
(***************************************************************************)
UngatedWhenThresholdsDisabled ==
    (/\ last.op = "irq" /\ last.found
     /\ ConfigOf(config, last.type, last.detector_id).enabled
     /\ ~ConfigOf(config, last.type, last.detector_id).threshold_enabled)
    => /\ last.notified
       /\ last.interrupt_type = SENSOR_INTERRUPT_THRESHOLD_NORMAL
       /\ \A k \in 1 .. Len(calls) :
              calls[k].interrupt_type = SENSOR_INTERRUPT_THRESHOLD_NORMAL
       /\ Len(calls) =
              Cardinality(ActiveSlots(sensors,
                                      <<last.type, last.detector_id>>))
              + Cardinality(ActiveSlots(sensors, <<last.type, UINT_MAX>>))

\* With thresholds disabled, a second sample of the same value above the
\* configured high threshold is dispatched again, as Normal, to the
\* subscriber.
RepeatedSampleDispatched ==
    /\ last.op = "irq" /\ last.found /\ last.notified
    /\ ~ConfigOf(config, last.type, last.detector_id).threshold_enabled
    /\ last.value > ConfigOf(config, last.type, last.detector_id).threshold_high
    /\ sensors[last.type].detectors[last.detector_id].previous_value
           = last.value
    /\ Len(calls) = 1
    /\ calls[1].interrupt_type = SENSOR_INTERRUPT_THRESHOLD_NORMAL
    /\ calls[1].value = last.value

(***************************************************************************)
(* C16.  Dispatch order: within one dispatch every callback of the         *)
(* detector's table is invoked before any callback of the global table,    *)
(* and the callbacks of one table are invoked in ascending slot order.     *)
(***************************************************************************)
DispatchOrder ==
    \A j \in 1 .. Len(calls) : \A k \in (j + 1) .. Len(calls) :
        /\ calls[j].scope[2] = UINT_MAX => calls[k].scope[2] = UINT_MAX
        /\ calls[j].scope = calls[k].scope => calls[j].slot < calls[k].slot

\* Slots 0 and 1 of the table of detector 1, then the wildcard one.
TwoDirectThenWildcard ==
    /\ Len(calls) = 3
    /\ calls[1].scope = <<SENSOR_TYPE_TEMPERATURE, 1>> /\ calls[1].slot = 0
    /\ calls[2].scope = <<SENSOR_TYPE_TEMPERATURE, 1>> /\ calls[2].slot = 1
    /\ calls[3].scope = <<SENSOR_TYPE_TEMPERATURE, UINT_MAX>>
    /\ calls[1].source_id = "M2" /\ calls[2].source_id = "M1"

(***************************************************************************)
(* C17.  Each callback a dispatch invokes receives the sensor type, the    *)
(* detector id, the transition kind and the sampled value of the           *)
(* transition being dispatched.  As claimed, the identity of the           *)
(* subscriber is not among what it receives (PayloadWithoutIdentity); as   *)
(* it holds, the callback also receives the identity of a subscriber of    *)
(* the transition (PayloadOfTransition).                                   *)
(***************************************************************************)
\* Invocation k carries the data of the handler run that dispatched it.
CarriesTransition(k) ==
    LET detector_ctx == sensors[last.type].detectors[last.detector_id]
    IN  /\ calls[k].type = last.type
        /\ calls[k].detector_id = last.detector_id
        /\ calls[k].interrupt_type = last.interrupt_type
        /\ calls[k].interrupt_type =
               IF detector_ctx.is_in_normal_range
               THEN SENSOR_INTERRUPT_THRESHOLD_NORMAL
               ELSE SENSOR_INTERRUPT_THRESHOLD_EXCEEDED
        /\ calls[k].value = last.value
        /\ calls[k].value = detector_ctx.current_value

PayloadWithoutIdentity ==
    (last.op = "irq" /\ last.notified) =>
        \A k \in 1 .. Len(calls) :
            /\ CarriesTransition(k)
            /\ calls[k].source_id #
                   SlotsOf(sensors, calls[k].scope)[calls[k].slot].requester_id

PayloadOfTransition ==
    (last.op = "irq" /\ last.notified) =>
        \A k \in 1 .. Len(calls) :
            /\ CarriesTransition(k)
            /\ \E tb \in {<<last.type, last.detector_id>>,
                           <<last.type, UINT_MAX>>} :
                   Holds(sensors, tb, calls[k].source_id)

\* A wildcard subscriber is told which detector crossed its threshold: the
\* callback of a global slot receives detector id 1, Exceeded and 95.
WildcardToldTheDetector ==
    /\ last.op = "irq" /\ last.notified
    /\ \E k \in 1 .. Len(calls) :
           /\ calls[k].scope = <<SENSOR_TYPE_TEMPERATURE, UINT_MAX>>
           /\ calls[k].type = SENSOR_TYPE_TEMPERATURE
           /\ calls[k].detector_id = 1
           /\ calls[k].interrupt_type = SENSOR_INTERRUPT_THRESHOLD_EXCEEDED
           /\ calls[k].value = 95
           /\ calls[k].source_id = "M1"

(***************************************************************************)
(* C18.  Each callback invocation is passed, as its last argument, the     *)
(* requester identity stored in the slot whose callback is invoked: the    *)
(* slot is active, and the identity is neither that of another slot nor a  *)
(* cleared or never-written one.                                           *)
(***************************************************************************)
IdentityOfInvokedSlot ==
    \A k \in 1 .. Len(calls) :
        LET reg == SlotsOf(sensors, calls[k].scope)[calls[k].slot]
        IN  /\ reg.active
            /\ calls[k].callback = reg.callback
            /\ calls[k].source_id = reg.requester_id
            /\ calls[k].source_id \notin {FWK_ID_NONE, ID_ZERO}
            /\ \A i \in ActiveSlots(sensors, calls[k].scope) \ {calls[k].slot} :
                   calls[k].source_id #
                       SlotsOf(sensors, calls[k].scope)[i].requester_id

\* Slot 0 of the table of detector 1 was cleared by an unregister; the
\* callback of slot 1 is invoked with the identity slot 1 holds, and the
\* wildcard one with the identity of its own slot.
IdentityBesideClearedSlot ==
    /\ last.op = "irq" /\ last.notified
    /\ SlotsOf(sensors, <<SENSOR_TYPE_TEMPERATURE, 1>>)[0].requester_id
           = FWK_ID_NONE
    /\ Len(calls) = 2
    /\ calls[1].scope = <<SENSOR_TYPE_TEMPERATURE, 1>> /\ calls[1].slot = 1
    /\ calls[1].source_id = "M2"
    /\ calls[2].scope = <<SENSOR_TYPE_TEMPERATURE, UINT_MAX>>
    /\ calls[2].source_id = "M1"

(***************************************************************************)
(* C19.  No consumer missed, none notified twice.  As claimed: a dispatch  *)
(* invokes every requester with an active registration in the detector's   *)
(* table or in the type's global table exactly once, also a requester      *)
(* registered in both (EachConsumerOnce).  As it holds: a dispatch invokes *)
(* every such registration exactly once, so a requester is invoked once    *)
(* for each of the two tables it is active in, twice when it is in both    *)
(* (EachRegistrationOnce).                                                 *)
(***************************************************************************)
\* The requester identities in use.
Requesters == {"M1", "M2", "M3"}

InvocationsOf(requester) ==
    Cardinality({k \in 1 .. Len(calls) : calls[k].source_id = requester})

ScopesHeld(requester) ==
    Cardinality({tb \in {<<last.type, last.detector_id>>,
                         <<last.type, UINT_MAX>>} :
                    Holds(sensors, tb, requester)})

EachConsumerOnce ==
    (last.op = "irq" /\ last.notified) =>
        \A r \in Requesters :
            InvocationsOf(r) = IF ScopesHeld(r) > 0 THEN 1 ELSE 0

EachRegistrationOnce ==
    (last.op = "irq" /\ last.notified) =>
        /\ \A r \in Requesters : InvocationsOf(r) = ScopesHeld(r)
        /\ \A j \in 1 .. Len(calls) : \A k \in 1 .. Len(calls) :
               (calls[j].scope = calls[k].scope
                /\ calls[j].slot = calls[k].slot) => j = k
        /\ \A k \in 1 .. Len(calls) : calls[k].source_id \in Requesters

\* M1 is registered on detector 1 and on the wildcard, M2 on detector 1
\* alone: one transition invokes M1 twice and M2 once.
BothScopesInvokedTwice ==
    /\ last.op = "irq" /\ last.notified
    /\ ScopesHeld("M1") = 2 /\ InvocationsOf("M1") = 2
    /\ ScopesHeld("M2") = 1 /\ InvocationsOf("M2") = 1

(***************************************************************************)
(* C20.  Unresolved interrupt: a run of the handler for a line that no     *)
(* detector configuration has invokes no callback and changes no detector  *)
(* value, flag or table; and the runs for a recognised line that come      *)
(* after it are sampled and dispatched as the edge-trigger law says, the   *)
(* status before them being that of the detector's latest sample, the      *)
(* unresolved runs in between left aside.                                  *)
(***************************************************************************)
UnresolvedChangesNothing ==
    (last'.op = "irq" /\ IrqMatches(config, last'.irq) = {}) =>
        /\ ~last'.found
        /\ ~last'.notified
        /\ calls' = << >>
        /\ sensors' = sensors
        /\ out' = out
        /\ sampled' = sampled

\* Every recorded run for a recognised line that follows an unresolved run.
ServicedAfterUnresolved ==
    \A i \in 1 .. Len(hist) :
        (hist[i].type # -1 /\ \E j \in 1 .. (i - 1) : hist[j].type = -1)
        => /\ EdgeLawAt(i)
           /\ (i = Len(hist) /\ last.op = "irq") =>
                  /\ sensors[hist[i].type].detectors[hist[i].detector_id]
                         .current_value = hist[i].value
                  /\ hist[i].notified =>
                         Len(calls) =
                             Cardinality(Addressed(hist[i].type,
                                                   hist[i].detector_id))

UnresolvedInterruptHarmless ==
    [][UnresolvedChangesNothing /\ ServicedAfterUnresolved']_vars

\* A sample of 50, an unresolved run, then a sample of 95: the crossing is
\* seen across the unresolved run and dispatched to the subscriber.
CrossingAfterUnresolved ==
    /\ Len(hist) >= 3
    /\ hist[Len(hist) - 2].type = SENSOR_TYPE_TEMPERATURE
    /\ hist[Len(hist) - 2].value = 50
    /\ hist[Len(hist) - 1].type = -1
    /\ hist[Len(hist)].type = SENSOR_TYPE_TEMPERATURE
    /\ hist[Len(hist)].value = 95
    /\ hist[Len(hist)].notified
    /\ hist[Len(hist)].interrupt_type = SENSOR_INTERRUPT_THRESHOLD_EXCEEDED
    /\ Len(calls) = 1
    /\ calls[1].value = 95

(***************************************************************************)
(* C21.  No overwrite: no register_notification call, successful or not,   *)
(* modifies a slot that was active before it; a successful one changes     *)
(* exactly one slot, of the addressed table, inactive before; a register   *)
(* or an unregister that fails changes no slot at all.                     *)
(***************************************************************************)
\* The slots, as <<table, index>>, whose content a step changes.
ChangedSlots ==
    {ti \in Tables \X (0 .. (config.max_registrations_per_detector - 1)) :
        SlotsOf(sensors', ti[1])[ti[2]] # SlotsOf(sensors, ti[1])[ti[2]]}

NoOverwrite ==
    [][/\ last'.op = "register" =>
              \A ti \in ChangedSlots : ~SlotsOf(sensors, ti[1])[ti[2]].active
       /\ (last'.op = "register" /\ last'.ret = FWK_SUCCESS) =>
              /\ ChangedSlots = {<<<<last'.type, last'.detector_id>>,
                                   last'.slot>>}
              /\ SlotsOf(sensors', <<last'.type, last'.detector_id>>)
                     [last'.slot].active
       /\ (last'.op \in {"register", "unregister"}
           /\ last'.ret # FWK_SUCCESS) =>
              ChangedSlots = {} /\ sensors' = sensors
      ]_vars

\* A register that succeeds into slot 1 beside the registration of another
\* module in slot 0, which keeps its callback and requester.
RegisteredBesideAnother ==
    /\ last.op = "register" /\ last.ret = FWK_SUCCESS /\ last.slot = 1
    /\ last.requester_id = "M2"
    /\ SlotsOf(sensors, <<last.type, last.detector_id>>)[0].active
    /\ SlotsOf(sensors, <<last.type, last.detector_id>>)[0].requester_id = "M1"
    /\ SlotsOf(sensors, <<last.type, last.detector_id>>)[0].callback = "cbB"

(***************************************************************************)
(* C22.  After start-up every detector is unsampled, its value zero and    *)
(* its in-range flag true, and every table is empty; from then on the      *)
(* current value, the previous value and the in-range flag of a detector   *)
(* change only in a run of the interrupt handler that resolved its line to *)
(* that detector: register_notification, unregister_notification and       *)
(* get_sensor_value leave them as they were.                               *)
(***************************************************************************)
\* The value, previous value and flag of every detector.
DetectorState(s) ==
    [td \in Types \X Dets |->
        <<s[td[1]].detectors[td[2]].current_value,
          s[td[1]].detectors[td[2]].previous_value,
          s[td[1]].detectors[td[2]].is_in_normal_range>>]

StartsUnsampled ==
    /\ \A td \in Types \X Dets : DetectorState(sensors)[td] = <<0, 0, TRUE>>
    /\ sampled = {}
    /\ \A tb \in Tables :
           ActiveSlots(sensors, tb) = {} /\ CountOf(sensors, tb) = 0

OnlySamplesChangeDetectors ==
    /\ last'.op \in {"register", "unregister", "get"} =>
           DetectorState(sensors') = DetectorState(sensors)
    /\ \A td \in Types \X Dets :
           DetectorState(sensors')[td] # DetectorState(sensors)[td] =>
               /\ last'.op = "irq" /\ last'.found
               /\ <<last'.type, last'.detector_id>> = td

DetectorStateFrame == StartsUnsampled /\ [][OnlySamplesChangeDetectors]_vars

\* A successful unregister while detector 1 of the temperature sensor holds
\* a sample above its band, a previous sample and a false flag.
UnregisterKeepsSample ==
    /\ last.op = "unregister" /\ last.ret = FWK_SUCCESS
    /\ DetectorState(sensors)[<<SENSOR_TYPE_TEMPERATURE, 1>>]
           = <<95, 50, FALSE>>

(***************************************************************************)
(* C25.  The classifier: for a detector without threshold monitoring       *)
(* determine_interrupt_type returns Normal; for a detector with monitoring *)
(* it returns Exceeded exactly when the value is outside [low, high] and   *)
(* Normal otherwise.  The previous status was_in_normal_range is no part   *)
(* of what decides the result.                                             *)
(***************************************************************************)
ClassifierIsLevel ==
    last.op = "classify" =>
        LET dcfg == ConfigOf(config, last.type, last.detector_id)
        IN  last.interrupt_type =
                IF ~dcfg.threshold_enabled
                THEN SENSOR_INTERRUPT_THRESHOLD_NORMAL
                ELSE IF InBand(last.value, dcfg)
                THEN SENSOR_INTERRUPT_THRESHOLD_NORMAL
                ELSE SENSOR_INTERRUPT_THRESHOLD_EXCEEDED

\* A value above the band classified while the previous status was already
\* out of range: the last else of the classifier, and Exceeded.
ClassifiedWithoutTransition ==
    /\ last.op = "classify"
    /\ ConfigOf(config, last.type, last.detector_id).threshold_enabled
    /\ ~InBand(last.value, ConfigOf(config, last.type, last.detector_id))
    /\ ~last.was_in_normal_range
    /\ last.interrupt_type = SENSOR_INTERRUPT_THRESHOLD_EXCEEDED

(***************************************************************************)
(* C26.  Under the gate of the handler, every notification for a detector  *)
(* with threshold monitoring carries a kind that one of the two transition *)
(* branches of the classifier returned: Exceeded from in range to out of   *)
(* range, Normal from out of range to in range.  A kind that the last else *)
(* of the classifier returned is never delivered.                          *)
(***************************************************************************)
DeliveredKindIsTransition ==
    [][(/\ last'.op = "irq" /\ last'.notified
        /\ ConfigOf(config, last'.type, last'.detector_id).threshold_enabled)
       => LET dcfg == ConfigOf(config, last'.type, last'.detector_id)
              was_in_normal_range ==
                  sensors[last'.type].detectors[last'.detector_id]
                      .is_in_normal_range
              branch == determine_interrupt_type_branch(
                            last'.value, was_in_normal_range, dcfg)
          IN  /\ branch \in {"normal_to_exceeded", "exceeded_to_normal"}
              /\ last'.interrupt_type =
                     IF branch = "normal_to_exceeded"
                     THEN SENSOR_INTERRUPT_THRESHOLD_EXCEEDED
                     ELSE SENSOR_INTERRUPT_THRESHOLD_NORMAL
              /\ \A k \in 1 .. Len(calls') :
                     calls'[k].interrupt_type = last'.interrupt_type
      ]_vars

\* A sample back inside the band of a monitored detector, after one outside
\* it, delivered to the subscriber as Normal.
ReturnToNormalDelivered ==
    /\ last.op = "irq" /\ last.notified
    /\ ConfigOf(config, last.type, last.detector_id).threshold_enabled
    /\ InBand(last.value, ConfigOf(config, last.type, last.detector_id))
    /\ last.interrupt_type = SENSOR_INTERRUPT_THRESHOLD_NORMAL
    /\ Len(calls) = 1
    /\ calls[1].interrupt_type = SENSOR_INTERRUPT_THRESHOLD_NORMAL

(***************************************************************************)
(* C30.  First fit: a successful register_notification fills the inactive  *)
(* slot of lowest index of the addressed table; so after an unregister has *)
(* freed slot i while every slot below i is active, the next successful    *)
(* register on that table occupies slot i.                                 *)
(***************************************************************************)
\* The inactive slots of table tb before the step.
InactiveSlots(s, tb) == DOMAIN SlotsOf(s, tb) \ ActiveSlots(s, tb)

FirstFit ==
    [][(last'.op = "register" /\ last'.ret = FWK_SUCCESS) =>
          LET tb == <<last'.type, last'.detector_id>>
          IN  /\ last'.slot \in InactiveSlots(sensors, tb)
              /\ \A j \in InactiveSlots(sensors, tb) : last'.slot <= j
              /\ SlotsOf(sensors', tb)[last'.slot] =
                     FillSlot(last'.callback, last'.requester_id,
                              last'.detector_id)
      ]_vars

\* M3 registered on the temperature wildcard into slot 0, which an
\* unregister had freed, while M2 holds slot 1.
LowestFreedSlotTaken ==
    /\ last.op = "register" /\ last.ret = FWK_SUCCESS
    /\ last.detector_id = UINT_MAX /\ last.requester_id = "M3"
    /\ last.slot = 0
    /\ SlotsOf(sensors, <<last.type, UINT_MAX>>)[1].active
    /\ SlotsOf(sensors, <<last.type, UINT_MAX>>)[1].requester_id = "M2"

(***************************************************************************)
(* C23.  setmpll returns FWK_SUCCESS only if the lock bit of the status    *)
(* register was observed set after the enable bit was written again, and   *)
(* it returns FWK_E_TIMEOUT when the PLL does not lock within the timeout  *)
(* of the device; under every device configuration, one without a timer    *)
(* included.                                                               *)
(***************************************************************************)
SuccessMeansLockObserved ==
    mpll_last.op = "setmpll" =>
        /\ mpll_last.ret = FWK_SUCCESS => mpll_last.lock_observed
        /\ (mpll_last.ret \notin {FWK_E_PARAM, FWK_E_INIT}
            /\ ~mpll_last.locked) => mpll_last.ret = FWK_E_TIMEOUT

(***************************************************************************)
(* C24.  Masked write: after a successful write_reg(value, mask) of width  *)
(* 8 or 32 bits, every bit of the addressed register inside the width and  *)
(* inside the mask equals that bit of value, and every bit inside the      *)
(* width and outside the mask is as it was before the call; a read_reg     *)
(* with the same offset and width that follows returns exactly these bits. *)
(***************************************************************************)
\* Bit b of the cell at offset of device dev_id is 1.
RegisterBit(regs, dev_id, offset, b) == (8 * offset + b) \in regs[dev_id]

\* The bits a width covers, stated apart from the driver's switch.
BitsOfWidth(width) ==
    IF width = MOD_MPLL_CLOCK_REG_WIDTH_8BIT THEN 0 .. 7 ELSE 0 .. 31

WriteIsMasked ==
    (mpll_last'.op = "write_reg" /\ mpll_last'.ret = FWK_SUCCESS) =>
        LET p == mpll_last'.arg
        IN  \A b \in BitsOfWidth(p.width) :
                RegisterBit(mpll_regs', mpll_last'.dev_id, p.offset, b)
                <=> IF b \in p.mask
                    THEN b \in p.value
                    ELSE RegisterBit(mpll_regs, mpll_last'.dev_id,
                                     p.offset, b)

ReadReturnsWritten ==
    (/\ mpll_last.op = "write_reg" /\ mpll_last.ret = FWK_SUCCESS
     /\ mpll_last'.op = "read_reg" /\ mpll_last'.ret = FWK_SUCCESS
     /\ mpll_last'.dev_id = mpll_last.dev_id
     /\ mpll_last'.arg.offset = mpll_last.arg.offset
     /\ mpll_last'.arg.width = mpll_last.arg.width) =>
        LET p == mpll_last.arg
        IN  mpll_last'.value =
                {b \in BitsOfWidth(p.width) :
                    IF b \in p.mask THEN b \in p.value
                    ELSE b \in mpll_last.current}

MaskedWrite == [][WriteIsMasked /\ ReadReturnsWritten]_vars

\* A byte write under mask 0x0F over a byte whose high half was 0x50, with
\* a value whose high half is 0xA0: the high half stays 0x50 and the low
\* half becomes that of the value.
HighNibbleKept ==
    /\ mpll_last.op = "write_reg" /\ mpll_last.ret = FWK_SUCCESS
    /\ mpll_last.arg.width = MOD_MPLL_CLOCK_REG_WIDTH_8BIT
    /\ mpll_last.arg.mask = ToBits(15)
    /\ mpll_last.arg.value = Word(165, 90, 60, 195)
    /\ mpll_last.current \cap (4 .. 7) = {4, 6}
    /\ mpll_reg_read(mpll_regs[mpll_last.dev_id], mpll_last.arg.offset,
                     MOD_MPLL_CLOCK_REG_WIDTH_8BIT) = ToBits(85)

(***************************************************************************)
(* C28.  Publish last, retire first: when the handler runs between any two *)
(* accesses of a foreground register_notification or                       *)
(* unregister_notification, every callback it invokes is non-null and is   *)
(* passed, with it, the requester identity of one registration of that     *)
(* table: one whose register has returned success and whose unregister has *)
(* not begun to clear it, or the one the foreground call is completing.  A *)
(* slot that is half written or half cleared is never invoked.             *)
(***************************************************************************)
\* The registration <<type, detector_id, callback, requester>> whose slot
\* invocation c was made from.
InvokedRegistration(c) == <<c.scope[1], c.scope[2], c.callback, c.source_id>>

NoHalfWrittenSlotInvoked ==
    \A j \in 1 .. Len(calls) :
        /\ calls[j].callback # NULL
        /\ calls[j].source_id \notin {FWK_ID_NONE, ID_ZERO}
        /\ InvokedRegistration(calls[j]) \in PreemptCalls
        /\ \/ <<calls[j].scope[1], calls[j].scope[2], calls[j].source_id>>
                  \in granted
           \/ /\ fg.op = "register"
              /\ InvokedRegistration(calls[j]) =
                     <<fg.type, fg.detector_id, fg.callback, fg.requester_id>>

\* The handler has run directly after a foreground register of M2 on
\* detector 1 had stored its callback and its identity into slot 1, not
\* yet marked active: the dispatch went to M1 in slot 0 alone.
PreemptedBeforePublish ==
    /\ fg.op = "register" /\ fg.pc = "store" /\ fg.k = 3
    /\ fg.requester_id = "M2" /\ fg.i = 1
    /\ SlotsOf(sensors, <<fg.type, fg.detector_id>>)[1].callback = "cbB"
    /\ SlotsOf(sensors, <<fg.type, fg.detector_id>>)[1].requester_id = "M2"
    /\ ~SlotsOf(sensors, <<fg.type, fg.detector_id>>)[1].active
    /\ Len(calls) = 1
    /\ calls[1].source_id = "M1"
    /\ calls[1].scope = <<fg.type, fg.detector_id>>

(***************************************************************************)
(* C27.  Stability of the pass: a dispatch invokes exactly once each       *)
(* registration that was active in the two addressed tables when the       *)
(* dispatch began, and no other, also when a callback invoked during the   *)
(* pass registers or unregisters on those tables.                          *)
(***************************************************************************)
DispatchOverSnapshot ==
    [][(last'.op = "irq" /\ last'.notified) =>
          /\ {<<calls'[k].scope, calls'[k].slot>> : k \in 1 .. Len(calls')}
                 = Addressed(last'.type, last'.detector_id)
          /\ Len(calls') =
                 Cardinality(Addressed(last'.type, last'.detector_id))
      ]_vars

(***************************************************************************)
(* C29.  Registration under preemption: when a callback run in interrupt   *)
(* context registers or unregisters on a table while a foreground          *)
(* register_notification on that table is between its duplicate check, its *)
(* search for a free slot and its stores, every registration whose         *)
(* register returned success still holds an active slot of its table, and  *)
(* no table holds two active slots of one requester.                       *)
(***************************************************************************)
RegistrationsSafe ==
    /\ \A g \in granted :
           (fg.op = "unregister"
            /\ <<fg.type, fg.detector_id, fg.requester_id>> = g)
           \/ Holds(sensors, <<g[1], g[2]>>, g[3])
    /\ \A tb \in Tables :
           \A i, j \in ActiveSlots(sensors, tb) :
               SlotsOf(sensors, tb)[i].requester_id =
                   SlotsOf(sensors, tb)[j].requester_id => i = j

(***************************************************************************)
(* C31.  Slot stability: an active registration keeps its slot index, its  *)
(* callback and its requester through every register and unregister call  *)
(* other than the successful unregister of its own requester on its own    *)
(* table; no call moves an active entry to another index.                  *)
(***************************************************************************)
\* The step is the successful unregister that ends the registration in slot
\* i of table tb.
OwnUnregister(tb, i) ==
    /\ last'.op = "unregister" /\ last'.ret = FWK_SUCCESS
    /\ <<last'.type, last'.detector_id>> = tb
    /\ last'.requester_id = SlotsOf(sensors, tb)[i].requester_id

SlotStability ==
    [][\A tb \in Tables :
           \A i \in ActiveSlots(sensors, tb) :
               ~OwnUnregister(tb, i) =>
                   SlotsOf(sensors', tb)[i] = SlotsOf(sensors, tb)[i]
      ]_vars

\* M3 registers into slot 0, which the unregister of M1 freed, while M2
\* still holds slot 1 of the same table with its callback.
SurvivorKeepsSlot ==
    /\ last.op = "register" /\ last.ret = FWK_SUCCESS /\ last.slot = 0
    /\ last.requester_id = "M3" /\ last.detector_id = 0
    /\ SlotsOf(sensors, <<last.type, 0>>)[1]
           = FillSlot("cbA", "M2", 0)

(***************************************************************************)
(* C32.  Alternation: for a detector with threshold monitoring, the kinds  *)
(* of its dispatched notifications alternate: the first one is Exceeded,   *)
(* and two consecutive notifications of the same detector never carry the  *)
(* same kind.  Stated over the history of handler runs: the notification   *)
(* before run i is the latest earlier notified run of the same detector;   *)
(* run i is the first one when the history is complete and has none.       *)
(***************************************************************************)
NotifiedBefore(i) == {j \in PreviousRuns(i) : hist[j].notified}

AlternationAt(i) ==
    LET run == hist[i]
        dcfg == ConfigOf(config, run.type, run.detector_id)
        before == NotifiedBefore(i)
        latest == CHOOSE j \in before : \A k \in before : k <= j
    IN  (dcfg.threshold_enabled /\ run.notified) =>
            IF before # {}
            THEN run.interrupt_type # hist[latest].interrupt_type
            ELSE Len(hist) < MaxHist =>
                     run.interrupt_type = SENSOR_INTERRUPT_THRESHOLD_EXCEEDED

Alternation ==
    \A i \in 1 .. Len(hist) : hist[i].type # -1 => AlternationAt(i)

\* The two temperature detectors cross their bands in turn: Exceeded for
\* detector 0, Exceeded for detector 1, then Normal for each.
InterleavedAlternation ==
    /\ Len(hist) = 4
    /\ \A i \in 1 .. 4 : hist[i].type = SENSOR_TYPE_TEMPERATURE
                          /\ hist[i].notified
    /\ <<hist[1].detector_id, hist[2].detector_id, hist[3].detector_id,
          hist[4].detector_id>> = <<0, 1, 0, 1>>
    /\ <<hist[1].interrupt_type, hist[2].interrupt_type,
          hist[3].interrupt_type, hist[4].interrupt_type>>
           = <<SENSOR_INTERRUPT_THRESHOLD_EXCEEDED,
               SENSOR_INTERRUPT_THRESHOLD_EXCEEDED,
               SENSOR_INTERRUPT_THRESHOLD_NORMAL,
               SENSOR_INTERRUPT_THRESHOLD_NORMAL>>

(***************************************************************************)
(* C33.  Count consistency: whenever no register or unregister call is in  *)
(* progress, the active count of every table (active_count of a detector,  *)
(* global_active_count of a type) equals the number of its slots marked    *)
(* active, so that every successful register has raised it by one and      *)
(* every successful unregister has lowered it by one; and the count is     *)
(* never below zero.                                                       *)
(***************************************************************************)
CountConsistency ==
    /\ \A tb \in Tables : CountOf(sensors, tb) >= 0
    /\ fg = fg_none =>
           \A tb \in Tables :
               CountOf(sensors, tb) = Cardinality(ActiveSlots(sensors, tb))

(***************************************************************************)
(* C34.  Isolation: a handler run that samples detector (T, D) changes the *)
(* current value, the previous value and the in-range flag of (T, D) and   *)
(* nothing else: no other detector and, the callbacks not calling the API, *)
(* no table; a register or an unregister addressed to one table changes    *)
(* the slots and the count of that table at most, and no other table and   *)
(* no detector's sample state.                                             *)
(***************************************************************************)
\* Everything a sensor context holds besides the registration tables and
\* the sample state of its detectors.
ContextRest(s) ==
    [type \in Types |->
        <<s[type].max_global_registrations,
          [d \in Dets |-> <<s[type].detectors[d].enabled,
                            s[type].detectors[d].max_registrations>>]>>]

TableState(s, tb) == <<SlotsOf(s, tb), CountOf(s, tb)>>

SampleIsolated ==
    last'.op = "irq" =>
        /\ \A tb \in Tables : TableState(sensors', tb) = TableState(sensors, tb)
        /\ \A td \in Types \X Dets :
               (~last'.found \/ td # <<last'.type, last'.detector_id>>) =>
                   DetectorState(sensors')[td] = DetectorState(sensors)[td]
        /\ ContextRest(sensors') = ContextRest(sensors)

TableCallIsolated ==
    last'.op \in {"register", "unregister"} =>
        /\ \A tb \in Tables :
               tb # <<last'.type, last'.detector_id>> =>
                   TableState(sensors', tb) = TableState(sensors, tb)
        /\ DetectorState(sensors') = DetectorState(sensors)
        /\ ContextRest(sensors') = ContextRest(sensors)

Isolation == [][SampleIsolated /\ TableCallIsolated]_vars

\* M1 leaves the table of detector 1 while it holds the wildcard table and
\* the table of detector 0 of the same type, M2 holds the wildcard table of
\* the voltage sensor, and detector 1 holds a sample above its band.
UnregisterAmongOthers ==
    /\ last.op = "unregister" /\ last.ret = FWK_SUCCESS
    /\ last.requester_id = "M1"
    /\ <<last.type, last.detector_id>> = <<SENSOR_TYPE_TEMPERATURE, 1>>
    /\ Holds(sensors, <<SENSOR_TYPE_TEMPERATURE, UINT_MAX>>, "M1")
    /\ Holds(sensors, <<SENSOR_TYPE_TEMPERATURE, 0>>, "M1")
    /\ Holds(sensors, <<SENSOR_TYPE_VOLTAGE, UINT_MAX>>, "M2")
    /\ DetectorState(sensors)[<<SENSOR_TYPE_TEMPERATURE, 1>>]
           = <<95, 50, FALSE>>

(***************************************************************************)
(* C35.  Interrupt resolution: a handler run for line L samples the first  *)
(* detector, in ascending order of sensor type and of detector within a    *)
(* type, whose configured line is L, and no other detector; it samples     *)
(* none when no detector has line L.  A detector that shares its line with *)
(* one earlier in that order is never sampled and keeps the state it had   *)
(* after start-up.                                                         *)
(***************************************************************************)
\* td comes before ue in the scan order.
ScansBefore(td, ue) == td[1] < ue[1] \/ (td[1] = ue[1] /\ td[2] < ue[2])

LineOf(td) == ConfigOf(config, td[1], td[2]).irq

\* td is the first detector in the scan order with line irq.
FirstOnLine(td, irq) ==
    /\ LineOf(td) = irq
    /\ \A ue \in Types \X Dets : ScansBefore(ue, td) => LineOf(ue) # irq

\* Some detector earlier in the scan order has the line of td.
Shadowed(td) ==
    \E ue \in Types \X Dets : ScansBefore(ue, td) /\ LineOf(ue) = LineOf(td)

ResolvedToFirst ==
    last'.op = "irq" =>
        /\ last'.found <=> \E td \in Types \X Dets : LineOf(td) = last'.irq
        /\ last'.found =>
               FirstOnLine(<<last'.type, last'.detector_id>>, last'.irq)
        /\ \A td \in Types \X Dets :
               (~last'.found \/ td # <<last'.type, last'.detector_id>>) =>
                   /\ DetectorState(sensors')[td] = DetectorState(sensors)[td]
                   /\ td \in sampled' <=> td \in sampled
        /\ \A k \in 1 .. Len(calls') :
               <<calls'[k].type, calls'[k].detector_id>>
                   = <<last'.type, last'.detector_id>>

ShadowedNeverSampled ==
    \A td \in Types \X Dets :
        Shadowed(td) =>
            td \notin sampled' /\ DetectorState(sensors')[td] = <<0, 0, TRUE>>

InterruptResolution == [][ResolvedToFirst /\ ShadowedNeverSampled]_vars

\* Temperature detector 1 and voltage detector 0 share line 33, which
\* temperature detector 0 does not have: a sample of 95 on that line goes
\* to temperature detector 1 and is dispatched with its identity, and the
\* voltage detector is as it was after start-up.
SharedAcrossTypes ==
    /\ LineOf(<<SENSOR_TYPE_TEMPERATURE, 0>>) = 32
    /\ LineOf(<<SENSOR_TYPE_TEMPERATURE, 1>>) = 33
    /\ LineOf(<<SENSOR_TYPE_VOLTAGE, 0>>) = 33
    /\ last.op = "irq" /\ last.irq = 33 /\ last.notified
    /\ <<last.type, last.detector_id>> = <<SENSOR_TYPE_TEMPERATURE, 1>>
    /\ Len(calls) = 1 /\ calls[1].detector_id = 1
    /\ DetectorState(sensors)[<<SENSOR_TYPE_TEMPERATURE, 1>>]
           = <<95, 0, FALSE>>
    /\ DetectorState(sensors)[<<SENSOR_TYPE_VOLTAGE, 0>>] = <<0, 0, TRUE>>

(***************************************************************************)
(* C36.  register_notification and unregister_notification do not look at *)
(* the enabled flag of the detector: on the table of a detector configured *)
(* as disabled, a register with a callback by a requester that holds no    *)
(* slot of a table that is not full returns success and takes a slot, and  *)
(* the unregister of a requester that holds a slot returns success; and no *)
(* registration held in the table of a disabled detector is ever invoked.  *)
(***************************************************************************)
\* The detector whose table a call addressed, when it addressed one.
DisabledTable(tb) ==
    /\ tb[1] \in Types /\ tb[2] \in Dets
    /\ ~ConfigOf(config, tb[1], tb[2]).enabled

RegisterIgnoresEnabled ==
    \A tb \in {<<last'.type, last'.detector_id>>} :
        DisabledTable(tb) =>
            /\ (/\ last'.op = "register" /\ last'.callback # NULL
                /\ ~Holds(sensors, tb, last'.requester_id)
                /\ ~IsFull(sensors, tb)) =>
                   /\ last'.ret = FWK_SUCCESS
                   /\ Holds(sensors', tb, last'.requester_id)
            /\ (last'.op = "unregister"
                /\ Holds(sensors, tb, last'.requester_id)) =>
                   /\ last'.ret = FWK_SUCCESS
                   /\ ~Holds(sensors', tb, last'.requester_id)

DisabledTableNeverFired ==
    \A k \in 1 .. Len(calls') : ~DisabledTable(calls'[k].scope)

RegistrationOnDisabledDetector ==
    [][RegisterIgnoresEnabled /\ DisabledTableNeverFired]_vars

(***************************************************************************)
(* C37.  Register/unregister round trip: in every reachable state, a       *)
(* register_notification of requester R on a table that returns success,   *)
(* followed at once by unregister_notification of R on the same table,     *)
(* gives success again and leaves the active entries (slot index,          *)
(* requester, callback) and the active count of every table as they were   *)
(* before the register.  As a step: the unregister that follows a          *)
(* successful register of the same requester on the same table succeeds    *)
(* and clears the slot that register took.                                 *)
(***************************************************************************)
\* The active entries of every table and the count of every table.
ActiveEntries(s) ==
    UNION {{<<tb, i, SlotsOf(s, tb)[i].requester_id,
              SlotsOf(s, tb)[i].callback>> : i \in ActiveSlots(s, tb)} :
           tb \in Tables}

Counts(s) == [tb \in Tables |-> CountOf(s, tb)]

RoundTripRestores ==
    \A c \in RegisterInputs :
        \A r \in {RegisterResult(sensors, c[1], c[2], c[3], c[4])} :
            r.ret = FWK_SUCCESS =>
                \A u \in {UnregisterResult(r.sensors, c[1], c[2], c[4])} :
                    /\ u.ret = FWK_SUCCESS
                    /\ ActiveEntries(u.sensors) = ActiveEntries(sensors)
                    /\ Counts(u.sensors) = Counts(sensors)

UnregisterUndoesRegister ==
    (/\ last.op = "register" /\ last.ret = FWK_SUCCESS
     /\ last'.op = "unregister"
     /\ <<last'.type, last'.detector_id, last'.requester_id>>
            = <<last.type, last.detector_id, last.requester_id>>) =>
        /\ last'.ret = FWK_SUCCESS /\ last'.slot = last.slot
        /\ ActiveEntries(sensors') =
               ActiveEntries(sensors)
                   \ {<<<<last.type, last.detector_id>>, last.slot,
                        last.requester_id, last.callback>>}
        /\ Counts(sensors') =
               [Counts(sensors) EXCEPT ![<<last.type, last.detector_id>>] =
                                           @ - 1]

RoundTrip == []RoundTripRestores /\ [][UnregisterUndoesRegister]_vars

\* M1 has left slot 0 of the table of detector 0 while M2 holds slot 1 of
\* it and M3 holds a slot of the wildcard table: a register of M1 there
\* would take slot 0 again.
RoundTripBesideOthers ==
    /\ last.op = "unregister" /\ last.ret = FWK_SUCCESS /\ last.slot = 0
    /\ last.requester_id = "M1"
    /\ <<last.type, last.detector_id>> = <<SENSOR_TYPE_TEMPERATURE, 0>>
    /\ SlotsOf(sensors, <<SENSOR_TYPE_TEMPERATURE, 0>>)[1]
           = FillSlot("cbA", "M2", 0)
    /\ Holds(sensors, <<SENSOR_TYPE_TEMPERATURE, UINT_MAX>>, "M3")
    /\ RegisterResult(sensors, SENSOR_TYPE_TEMPERATURE, 0, "cbB", "M1").ret
           = FWK_SUCCESS

(***************************************************************************)
(* C38.  Termination: every call of the API and every run of the handler   *)
(* returns after a number of loop iterations and stores bounded by the     *)
(* capacity of the tables and the number of detectors, also when callbacks *)
(* register or unregister during the dispatch; nothing waits.  A handler   *)
(* run scans at most every detector and reaches each slot of the two       *)
(* addressed tables once; a call made by a callback walks each of its two  *)
(* loops at most once; a foreground call in progress can always take its   *)
(* next step, and every step it takes brings it nearer to its return.      *)
(***************************************************************************)
Capacity == config.max_registrations_per_detector

HandlerBound == SENSOR_TYPE_COUNT * DETECTORS_PER_SENSOR + 2 * Capacity

CallBound == 2 * (Capacity + 1) + Len(register_stores)

\* The steps the foreground call f has left at most.
Remaining(f) ==
    CASE f.pc = "check" ->
            (Capacity - f.i + 1) + (Capacity + 1) + Len(register_stores)
      [] f.pc = "find" -> (Capacity - f.i + 1) + Len(register_stores)
      [] f.pc = "store" -> Len(register_stores) - f.k + 1
      [] OTHER -> 0

\* The scan stops at the detector it resolves the line to, and the
\* dispatch reaches each slot of the two addressed tables once.
HandlerRunBounded ==
    last.op = "irq" =>
        /\ last.steps =
               (last.type * DETECTORS_PER_SENSOR + last.detector_id + 1)
               + (IF last.notified THEN 2 * Capacity ELSE 0)
        /\ last.steps <= HandlerBound
        /\ last.call_steps <= CallBound
        /\ Len(calls) <= 2 * Capacity

ForegroundNeverWaits ==
    fg.op # "none" =>
        /\ Remaining(fg) \in 1 .. CallBound
        /\ ENABLED fg_step

ForegroundAdvances ==
    (fg.op # "none" /\ fg' # fg) =>
        fg'.op = "none" \/ Remaining(fg') < Remaining(fg)

Termination ==
    /\ [](HandlerRunBounded /\ ForegroundNeverWaits)
    /\ [][ForegroundAdvances]_vars

\* A dispatch that preempts a foreground call invokes two callbacks, the
\* first of which calls register_notification and the second of which
\* unregisters the first from the table the dispatch walks.
DispatchWithCallsInside ==
    /\ fg.op # "none"
    /\ last.op = "irq" /\ last.notified
    /\ Len(calls) = 2
    /\ calls[1].callback = "cbRegisterM3"
    /\ calls[2].callback = "cbUnregisterM2"
    /\ ~Holds(sensors, <<SENSOR_TYPE_TEMPERATURE, 1>>, "M2")
    /\ last.call_steps > Capacity

(***************************************************************************)
(* C39.  The life of an MPLL device.                                       *)
(***************************************************************************)

ApiOps == {"setmpll", "getmpll", "read_reg", "write_reg"}

\* The call just made is one of the four API functions on a device of the
\* module with arguments that pass its parameter checks.
ValidApiCall(c) ==
    /\ c.op \in ApiOps
    /\ c.dev_id \in MpllDevices
    /\ c.arg # NULL_PARAMS
    /\ c.op \in {"read_reg", "write_reg"}
           => c.arg.width < MOD_MPLL_CLOCK_REG_WIDTH_COUNT

\* A valid call on a device that is not started returns FWK_E_INIT, makes
\* no register access and leaves the registers and the context table as
\* they are; on a started device it does not return FWK_E_INIT.
CallRespectsStart ==
    LET c == mpll_last'
    IN  ValidApiCall(c) =>
            IF dev_ctx_table[c.dev_id].initialized
            THEN c.ret # FWK_E_INIT
            ELSE /\ c.ret = FWK_E_INIT
                 /\ c.trace = << >>
                 /\ c.freq = NO_FREQ
                 /\ c.value = {-1}
                 /\ mpll_regs' = mpll_regs
                 /\ dev_ctx_table' = dev_ctx_table

InitializedStays ==
    \A dev_id \in MpllDevices :
        dev_ctx_table[dev_id].initialized
            => dev_ctx_table'[dev_id].initialized

\* C39: for every device, setmpll, getmpll, read_reg and write_reg called
\* with valid arguments before the start of that device return FWK_E_INIT
\* without reading or writing a register and without changing the cached
\* frequency configuration; after the start they do not return FWK_E_INIT;
\* and the initialized flag, once true, stays true.
DeviceLifecycle == [][CallRespectsStart /\ InitializedStays]_vars

\* write_reg is refused on the secondary device, not yet started, although
\* the main device is started and its frequency register was written.
RefusedBesideStarted ==
    /\ mpll_last.op = "write_reg"
    /\ mpll_last.dev_id = MPLL_CLOCK_IDX_SECONDARY
    /\ mpll_last.ret = FWK_E_INIT
    /\ dev_ctx_table[MPLL_CLOCK_IDX_MAIN].initialized
    /\ mpll_regs[MPLL_CLOCK_IDX_MAIN] # {}
    /\ ~dev_ctx_table[MPLL_CLOCK_IDX_SECONDARY].initialized
(***************************************************************************)
(* C40.  setmpll followed by getmpll.                                      *)
(***************************************************************************)

InByteRange(f) ==
    /\ f.multiplier \in 1 .. 255
    /\ f.divider \in 1 .. 255
    /\ f.post_divider \in 1 .. 255

\* The frequency the device produces from its reference with the settings
\* f.
OutputFrequency(dev_id, f) ==
    U64Div(U64Mul(U64(mpll_elements[dev_id].ref_frequency), f.multiplier),
           f.divider * f.post_divider)

\* A getmpll that directly follows a successful setmpll on the same device
\* returns what was set and the frequency that follows from it.
GetReturnsWhatWasSet ==
    LET set == mpll_last
        get == mpll_last'
    IN  (/\ set.op = "setmpll"
         /\ set.ret = FWK_SUCCESS
         /\ InByteRange(set.arg)
         /\ get.op = "getmpll"
         /\ get.dev_id = set.dev_id)
            => /\ get.ret = FWK_SUCCESS
               /\ get.freq.multiplier = set.arg.multiplier
               /\ get.freq.divider = set.arg.divider
               /\ get.freq.post_divider = set.arg.post_divider
               /\ get.freq.frequency = OutputFrequency(set.dev_id, set.arg)

\* The same for the devices accessed by words only.
WordGetReturnsWhatWasSet ==
    \/ GetReturnsWhatWasSet
    \/ /\ mpll_last.dev_id \in MpllDevices
       /\ mpll_elements[mpll_last.dev_id].default_width
              = MOD_MPLL_CLOCK_REG_WIDTH_8BIT

\* A setmpll that reaches the registers writes the frequency register
\* while the enable bit is clear and only then, and leaves the enable bit
\* set.
FrequencyWrittenWhileDisabled ==
    (mpll_last.op = "setmpll" /\ mpll_last.trace # << >>)
        => LET cfg == mpll_elements[mpll_last.dev_id]
               writes ==
                   {i \in DOMAIN mpll_last.trace :
                       /\ mpll_last.trace[i].kind = "write"
                       /\ mpll_last.trace[i].offset = cfg.freq_reg_offset}
           IN  /\ writes # {}
               /\ \A i \in writes : ~mpll_last.trace[i].enabled
               /\ \E j \in DOMAIN mpll_last.trace :
                      /\ \A i \in writes : i < j
                      /\ mpll_last.trace[j].kind = "write"
                      /\ mpll_last.trace[j].offset = cfg.control_reg_offset
               /\ (8 * cfg.control_reg_offset + MPLL_CTRL_ENABLE_POS)
                      \in mpll_regs[mpll_last.dev_id]

\* C40: for both register access widths, after a successful setmpll with
\* multiplier, divider and post-divider each in 1..255, getmpll returns the
\* same multiplier, divider and post-divider and the frequency
\* ref_frequency * multiplier / (divider * post_divider); during setmpll
\* the frequency register is written only while the enable bit is cleared,
\* and the enable bit is set again afterwards.
SetGetRoundTrip ==
    []FrequencyWrittenWhileDisabled /\ [][GetReturnsWhatWasSet]_vars

\* The part of it that the code keeps: the round trip on the devices
\* accessed by words, and the order of the writes on all of them.
WordRoundTrip ==
    []FrequencyWrittenWhileDisabled /\ [][WordGetReturnsWhatWasSet]_vars

\* getmpll on the device accessed by words, after a setmpll of the largest
\* settings.
LargestSettingsReadBack ==
    /\ mpll_last.op = "getmpll"
    /\ mpll_last.dev_id = MPLL_CLOCK_IDX_MAIN
    /\ mpll_last.freq = FreqConfig(255, 255, 255)

====
